---- MODULE Spec2Model ----
(***************************************************************************)
(* Model of the asynchronous search-task orchestrator of paper_survey:     *)
(*   task_store.py     the in-memory task store and its operations         *)
(*   task_executor.py  execute_search_task, the background pipeline        *)
(*   main.py           the /tasks/search and /tasks/{task_id} handlers     *)
(*   search_multi.py   search_papers, as far as the orchestrator sees it   *)
(*                                                                         *)
(* Optional values are sequences of length at most one: None is <<>> and   *)
(* a present value x is <<x>>.  Time is counted in minutes.  The Chinese   *)
(* stage descriptions of task_store.py are written as English glosses.     *)
(***************************************************************************)
EXTENDS Naturals, Integers, Sequences, FiniteSets, TLC

VARIABLES
    tasks,        \* task_store._tasks: task_id -> TaskState
    now,          \* the clock read by datetime.utcnow()
    used,         \* the task ids uuid4 has handed out so far
    pc,           \* per task id: where its execute_search_task stands
    run,          \* per task id: the locals of its execute_search_task
    params,       \* the parameter names the deployed search_papers accepts
    down,         \* the backends that error out on every call
    cb_left,      \* progress callbacks the aggregator may still make
    response,     \* what the handler of main.py that ran in the last step
                  \* returned (NoResponse after any other step)
    sync,         \* the GET /search request in progress: the locals of search
    calc          \* a function of the pipeline applied on its own: its
                  \* arguments and, once applied, its result

vars ==
    <<tasks, now, used, pc, run, params, down, cb_left, response, sync, calc>>

----------------------------------------------------------------------------
(* Bounds of the model. *)

MaxTasks == 2
MaxTime == 60
ClockStep == 30
MaxCallbacks == 2
MaxQueryLen == 1

MaxGroups == 2
MaxGroupLen == 2

MaxPapers == 3
\* The longest list the final dedup is applied to on its own.
MaxMerged == 2
MaxCallers == 2
MaxPasses == 2
MaxClock == 90
MaxSources == 4
MaxPageItems == 2
MaxStoreOps == 3
ServerTotal == 3
TaskIds == 1..MaxTasks

----------------------------------------------------------------------------
(* Data model. *)

None == <<>>
Some(x) == <<x>>

TaskStatusValues ==
    {"created", "parsing", "searching", "ranking", "completed", "failed"}

TerminalStatuses == {"completed", "failed"}

SourceStatusValues == {"pending", "in_progress", "completed", "failed"}

\* SourceProgress(): the entry a backend gets when it first reports.
SourceProgressDefault(name) ==
    [name |-> name, status |-> "pending", fetched |-> 0,
     total_estimated |-> None, errors |-> <<>>]

\* config.MAX_RESULTS_LIMIT, the configured ceiling of max_results.
MAX_RESULTS_LIMIT == 2

\* timedelta(minutes=30), the TTL of a finished task.
TTL_MINUTES == 30

ALLOWED_SOURCES == <<"s2", "openalex", "crossref", "arxiv", "pubmed", "eupmc">>

Range(s) == {s[i] : i \in 1..Len(s)}

----------------------------------------------------------------------------
(* task_store.py: the derived progress fields. *)

\* The sources dict is a sequence of entries in insertion order.
SourceNamesOf(sources) == {sources[i].name : i \in 1..Len(sources)}

CompletedCount(sources) ==
    Cardinality({i \in 1..Len(sources) : sources[i].status = "completed"})

_calculate_overall_percent(stage, sources) ==
    CASE stage = "created" -> 0
      [] stage = "parsing" -> 25
      [] stage = "searching" ->
            IF Len(sources) = 0
            THEN 25
            ELSE 25 + ((CompletedCount(sources) * 50) \div Len(sources))
      [] stage = "ranking" -> 75
      [] stage = "completed" -> 100
      [] stage = "failed" -> 0
      [] OTHER -> 0

SOURCE_NAMES(name) ==
    CASE name = "s2" -> "Semantic Scholar"
      [] name = "openalex" -> "OpenAlex"
      [] name = "arxiv" -> "arXiv"
      [] name = "crossref" -> "Crossref"
      [] name = "pubmed" -> "PubMed"
      [] name = "eupmc" -> "Europe PMC"
      [] OTHER -> name

InProgressIndexes(sources) ==
    {i \in 1..Len(sources) : sources[i].status = "in_progress"}

FirstInProgress(sources) ==
    CHOOSE i \in InProgressIndexes(sources) :
        \A j \in InProgressIndexes(sources) : i <= j

_generate_stage_description(stage, sources) ==
    CASE stage = "created" -> <<"task created">>
      [] stage = "parsing" -> <<"parsing query intent">>
      [] stage = "searching" ->
            IF Len(sources) = 0
            THEN <<"about to start searching">>
            ELSE IF InProgressIndexes(sources) # {}
            THEN <<"searching", SOURCE_NAMES(sources[FirstInProgress(sources)].name)>>
            ELSE IF CompletedCount(sources) = Len(sources)
            THEN <<"literature retrieval finished">>
            ELSE <<"searching several sources">>
      [] stage = "ranking" -> <<"entering ranking stage">>
      [] stage = "completed" -> <<"search completed">>
      [] stage = "failed" -> <<"search failed">>
      [] OTHER -> <<"processing">>

----------------------------------------------------------------------------
(* task_store.py: the operations.  Each takes the store and the clock and  *)
(* gives the store it leaves; each runs inside `async with _tasks_lock`    *)
(* without awaiting anything, so it is one step.                           *)

NewTaskState(task_id, query, t) ==
    [task_id |-> task_id,
     status |-> "created",
     progress |-> [stage |-> "created",
                   stage_description |-> <<"task created">>,
                   sources |-> <<>>,
                   overall_percent |-> 0],
     query |-> query,
     results |-> None,
     errors |-> <<>>,
     created_at |-> t,
     updated_at |-> t,
     completed_at |-> None,
     expires_at |-> None]

\* create_task that assigns a new dict holding the one task.
create_task_replacing(ts, task_id, query, t) ==
    (task_id :> NewTaskState(task_id, query, t))

create_task(ts, task_id, query, t) ==
    (task_id :> NewTaskState(task_id, query, t)) @@ ts

get_task(ts, task_id) ==
    IF task_id \in DOMAIN ts THEN Some(ts[task_id]) ELSE None

\* update_task_status without `task.progress.stage = status.value`.
update_task_status_keeping_stage(ts, task_id, status, t) ==
    IF task_id \notin DOMAIN ts
    THEN ts
    ELSE LET sources == ts[task_id].progress.sources
         IN  [ts EXCEPT ![task_id] =
                [@ EXCEPT
                   !.status = status,
                   !.updated_at = t,
                   !.progress.stage_description =
                      _generate_stage_description(status, sources),
                   !.progress.overall_percent =
                      _calculate_overall_percent(status, sources)]]

update_task_status(ts, task_id, status, t) ==
    IF task_id \notin DOMAIN ts
    THEN ts
    ELSE LET task == ts[task_id]
             sources == task.progress.sources
         IN  [ts EXCEPT ![task_id] =
                [task EXCEPT
                   !.status = status,
                   !.updated_at = t,
                   !.progress =
                      [stage |-> status,
                       stage_description |->
                          _generate_stage_description(status, sources),
                       sources |-> sources,
                       overall_percent |->
                          _calculate_overall_percent(status, sources)]]]

SourceIndex(sources, source) ==
    CHOOSE i \in 1..Len(sources) : sources[i].name = source

\* update_source_progress that also puts the task back into searching.
update_source_progress_restaging(ts, task_id, source, ev, t) ==
    IF task_id \notin DOMAIN ts
    THEN ts
    ELSE LET task == ts[task_id]
             old == task.progress.sources
             with == IF source \in SourceNamesOf(old)
                     THEN old
                     ELSE Append(old, SourceProgressDefault(source))
             i == SourceIndex(with, source)
             entry == [name |-> source,
                       status |-> ev.status,
                       fetched |-> ev.fetched,
                       total_estimated |-> ev.total,
                       errors |-> IF Len(ev.errors) > 0
                                  THEN ev.errors
                                  ELSE with[i].errors]
             sources == [with EXCEPT ![i] = entry]
         IN  [ts EXCEPT ![task_id] =
                [task EXCEPT
                   !.status = "searching",
                   !.updated_at = t,
                   !.progress =
                      [stage |-> "searching",
                       stage_description |->
                          _generate_stage_description("searching", sources),
                       sources |-> sources,
                       overall_percent |->
                          _calculate_overall_percent("searching", sources)]]]

\* The arguments of one progress report: status, fetched, total, errors.
update_source_progress(ts, task_id, source, ev, t) ==
    IF task_id \notin DOMAIN ts
    THEN ts
    ELSE LET task == ts[task_id]
             old == task.progress.sources
             with == IF source \in SourceNamesOf(old)
                     THEN old
                     ELSE Append(old, SourceProgressDefault(source))
             i == SourceIndex(with, source)
             entry == [name |-> source,
                       status |-> ev.status,
                       fetched |-> ev.fetched,
                       total_estimated |-> ev.total,
                       errors |-> IF Len(ev.errors) > 0
                                  THEN ev.errors
                                  ELSE with[i].errors]
             sources == [with EXCEPT ![i] = entry]
             stage == task.progress.stage
         IN  [ts EXCEPT ![task_id] =
                [task EXCEPT
                   !.updated_at = t,
                   !.progress =
                      [stage |-> stage,
                       stage_description |->
                          _generate_stage_description(stage, sources),
                       sources |-> sources,
                       overall_percent |->
                          _calculate_overall_percent(stage, sources)]]]

\* complete_task that stores the results under an id it does not find.
complete_task_recreating(ts, task_id, results, t) ==
    IF task_id \notin DOMAIN ts
    THEN (task_id :> [NewTaskState(task_id, <<>>, t) EXCEPT
                         !.status = "completed",
                         !.results = Some(results)]) @@ ts
    ELSE [ts EXCEPT ![task_id] =
            [@ EXCEPT
               !.status = "completed",
               !.progress.stage = "completed",
               !.progress.overall_percent = 100,
               !.results = Some(results),
               !.updated_at = t,
               !.completed_at = Some(t),
               !.expires_at = Some(t + TTL_MINUTES)]]

\* complete_task without `task.progress.overall_percent = 100`.
complete_task_keeping_percent(ts, task_id, results, t) ==
    IF task_id \notin DOMAIN ts
    THEN ts
    ELSE [ts EXCEPT ![task_id] =
            [@ EXCEPT
               !.status = "completed",
               !.progress.stage = "completed",
               !.results = Some(results),
               !.updated_at = t,
               !.completed_at = Some(t),
               !.expires_at = Some(t + TTL_MINUTES)]]

complete_task(ts, task_id, results, t) ==
    IF task_id \notin DOMAIN ts
    THEN ts
    ELSE [ts EXCEPT ![task_id] =
            [@ EXCEPT
               !.status = "completed",
               !.progress.stage = "completed",
               !.progress.overall_percent = 100,
               !.results = Some(results),
               !.updated_at = t,
               !.completed_at = Some(t),
               !.expires_at = Some(t + TTL_MINUTES)]]

\* fail_task that assigns the error list instead of appending to it and
\* resets the per-backend map.
fail_task_resetting(ts, task_id, error, t) ==
    IF task_id \notin DOMAIN ts
    THEN ts
    ELSE [ts EXCEPT ![task_id] =
            [@ EXCEPT
               !.status = "failed",
               !.progress.stage = "failed",
               !.progress.sources = <<>>,
               !.errors = <<[message |-> error, timestamp |-> t]>>,
               !.updated_at = t,
               !.completed_at = Some(t),
               !.expires_at = Some(t + TTL_MINUTES)]]

fail_task(ts, task_id, error, t) ==
    IF task_id \notin DOMAIN ts
    THEN ts
    ELSE [ts EXCEPT ![task_id] =
            [@ EXCEPT
               !.status = "failed",
               !.progress.stage = "failed",
               !.errors = Append(@, [message |-> error, timestamp |-> t]),
               !.updated_at = t,
               !.completed_at = Some(t),
               !.expires_at = Some(t + TTL_MINUTES)]]

\* ExpiredIds with `expires_at <= now` for `expires_at < now`.
ExpiredIds_inclusive(ts, t) ==
    {id \in DOMAIN ts : ts[id].expires_at # None /\ ts[id].expires_at[1] <= t}

ExpiredIds(ts, t) ==
    {id \in DOMAIN ts : ts[id].expires_at # None /\ ts[id].expires_at[1] < t}

cleanup_expired_tasks(ts, t) ==
    [id \in DOMAIN ts \ ExpiredIds(ts, t) |-> ts[id]]

----------------------------------------------------------------------------
(* search_multi.py: the backend selection of search_papers. *)

\* x.strip().lower() on the spellings the model draws backend names from.
StripLower(x) ==
    CASE x = "S2" -> "s2"
      [] x = " openalex " -> "openalex"
      [] x = "OpenAlex" -> "openalex"
      [] OTHER -> x

RECURSIVE NormDedup(_, _)
NormDedup(srcs, norm) ==
    IF srcs = <<>>
    THEN norm
    ELSE LET k == StripLower(Head(srcs))
         IN  IF k \in Range(ALLOWED_SOURCES) /\ k \notin Range(norm)
             THEN NormDedup(Tail(srcs), Append(norm, k))
             ELSE NormDedup(Tail(srcs), norm)

\* _normalize_sources without the limit of three.
_normalize_sources_uncapped(srcs) ==
    LET given == IF srcs = None \/ srcs[1] = <<>> THEN <<"s2">> ELSE srcs[1]
        norm == NormDedup(given, <<>>)
        with == IF "s2" \notin Range(norm) THEN <<"s2">> \o norm ELSE norm
    IN  IF with = <<>> THEN <<"s2">> ELSE with

_normalize_sources(srcs) ==
    LET given == IF srcs = None \/ srcs[1] = <<>> THEN <<"s2">> ELSE srcs[1]
        norm == NormDedup(given, <<>>)
        with == IF "s2" \notin Range(norm) THEN <<"s2">> \o norm ELSE norm
        others == SelectSeq(with, LAMBDA x : x # "s2")
        capped == IF Len(with) > 3
                  THEN <<"s2">> \o SubSeq(others, 1, 2)
                  ELSE with
    IN  IF capped = <<>> THEN <<"s2">> ELSE capped

\* The parameters of `async def search_papers(intent)`.
SearchPapersParams == {"intent"}

\* The call of task_executor.py: search_papers(intent, progress_callback=...).
SearchCallArguments == {"intent", "progress_callback"}

\* Python binds a call's arguments before the coroutine exists: a keyword the
\* function does not declare raises TypeError at the call.
CallBinds(arguments, parameters) == arguments \subseteq parameters

----------------------------------------------------------------------------
(* search_multi.py: query expansion.  A string is the sequence of its      *)
(* characters.                                                             *)

Str1(c) == <<c>>

SPACE == Str1(" ")
QUOTE == Str1("\"")
WILDCARD == Str1("*")

\* s.strip() on strings whose only whitespace is the space.
RECURSIVE LStrip(_)
LStrip(q) == IF q # <<>> /\ Head(q) = " " THEN LStrip(Tail(q)) ELSE q

RECURSIVE RStrip(_)
RStrip(q) ==
    IF q # <<>> /\ q[Len(q)] = " " THEN RStrip(SubSeq(q, 1, Len(q) - 1)) ELSE q

Strip(q) == RStrip(LStrip(q))

\* _quote_if_needed that leaves every phrase unquoted.
_quote_if_needed_never(term) == Strip(term)

_quote_if_needed(term) ==
    LET t == Strip(term)
    IN  IF t = <<>>
        THEN t
        ELSE IF (\E i \in 1..Len(t) : t[i] = " ")
                  /\ ~(t[1] = "\"" /\ t[Len(t)] = "\"")
             THEN QUOTE \o t \o QUOTE
             ELSE t

\* [_quote_if_needed(term) for term in group if term and str(term).strip()]
RECURSIVE clean_group(_)
clean_group(group) ==
    IF group = <<>>
    THEN <<>>
    ELSE LET term == Head(group)
             rest == clean_group(Tail(group))
         IN  IF term # <<>> /\ Strip(term) # <<>>
             THEN <<_quote_if_needed(term)>> \o rest
             ELSE rest

RECURSIVE filtered_groups(_)
filtered_groups(groups) ==
    IF groups = <<>>
    THEN <<>>
    ELSE LET clean == clean_group(Head(groups))
             rest == filtered_groups(Tail(groups))
         IN  IF clean # <<>> THEN <<clean>> \o rest ELSE rest

\* " ".join(combo)
RECURSIVE JoinSpace(_)
JoinSpace(combo) ==
    IF combo = <<>>
    THEN <<>>
    ELSE IF Len(combo) = 1
         THEN combo[1]
         ELSE combo[1] \o SPACE \o JoinSpace(Tail(combo))

\* [<<x>> \o c : c in combos], in the order of combos.
RECURSIVE PrependAll(_, _)
PrependAll(x, combos) ==
    IF combos = <<>>
    THEN <<>>
    ELSE <<(<<x>> \o Head(combos))>> \o PrependAll(x, Tail(combos))

\* itertools.product(*groups): the last group varies fastest.
RECURSIVE Product(_)
RECURSIVE ProductFrom(_, _)
ProductFrom(group, combos) ==
    IF group = <<>>
    THEN <<>>
    ELSE PrependAll(Head(group), combos) \o ProductFrom(Tail(group), combos)

Product(groups) ==
    IF groups = <<>>
    THEN << <<>> >>
    ELSE ProductFrom(Head(groups), Product(Tail(groups)))

_build_query_combinations(any_groups) ==
    LET groups == filtered_groups(any_groups)
    IN  IF groups = <<>>
        THEN <<WILDCARD>>
        ELSE LET combinations == Product(groups)
             IN  [k \in 1..Len(combinations) |-> JoinSpace(combinations[k])]

----------------------------------------------------------------------------
(* schemas.py: PaperMetadata, with the fields the pipeline reads.  title,   *)
(* doi and url are strings (sequences of characters); publication_date is  *)
(* the <<year, month, day>> its first ten characters spell, whether or not *)
(* that is a date; absent fields are None.                                 *)

PaperMetadata(title, year, doi, url, journal, infl, publication_date) ==
    [title |-> title, year |-> year, doi |-> doi, url |-> url,
     journal |-> journal, influential_citations |-> infl,
     publication_date |-> publication_date,
     authors |-> <<>>, open_access |-> FALSE, publication_types |-> <<>>]

TOP_VENUES ==
    {"NeurIPS", "NIPS", "ICLR", "ICML", "AAAI", "IJCAI", "JMLR",
     "CVPR", "ICCV", "ECCV", "TPAMI", "IJCV",
     "ACL", "EMNLP", "NAACL", "COLING", "TACL",
     "SIGIR", "WWW", "KDD", "VLDB", "SIGMOD", "ICDE"}

----------------------------------------------------------------------------
(* ranking.py.  Scores are integers, in millionths.                        *)

\* The calendar of datetime.date.
IsLeap(y) == (y % 4 = 0 /\ y % 100 # 0) \/ y % 400 = 0

DaysInMonth(y, m) ==
    CASE m \in {4, 6, 9, 11} -> 30
      [] m = 2 -> IF IsLeap(y) THEN 29 ELSE 28
      [] OTHER -> 31

\* Whether datetime.fromisoformat / date(y, m, d) accepts the triple.
ValidDate(d) ==
    /\ Len(d) = 3
    /\ d[1] \in 1..9999
    /\ d[2] \in 1..12
    /\ d[3] \in 1..DaysInMonth(d[1], d[2])

RECURSIVE DaysBeforeMonth(_, _)
DaysBeforeMonth(y, m) ==
    IF m = 1 THEN 0 ELSE DaysBeforeMonth(y, m - 1) + DaysInMonth(y, m - 1)

\* date.toordinal()
ToOrdinal(d) ==
    LET y == d[1] - 1
    IN  y * 365 + (y \div 4) - (y \div 100) + (y \div 400)
           + DaysBeforeMonth(d[1], d[2]) + d[3]

\* The day on which the model's clock reads 0.
EPOCH == <<2025, 7, 1>>

\* datetime.now(LOCAL_TZ).date(), as an ordinal, when the clock reads t.
TodayAt(t) == ToOrdinal(EPOCH) + (t \div 1440)

\* v.upper() on the venue names the model draws.
Upper(v) ==
    CASE v = "iclr" -> "ICLR"
      [] v = "NeurIPS" -> "NEURIPS"
      [] v = "Other" -> "OTHER"
      [] OTHER -> v

_venue_score(v) ==
    IF v = None \/ v = Some("")
    THEN 300000
    ELSE IF Upper(v[1]) \in TOP_VENUES THEN 1000000 ELSE 500000

_pub_date_as_date(p) ==
    IF p.publication_date # None /\ ValidDate(p.publication_date[1])
    THEN p.publication_date
    ELSE IF p.year # None /\ p.year[1] # 0
         THEN IF ValidDate(<<p.year[1], 7, 1>>)
              THEN Some(<<p.year[1], 7, 1>>)
              ELSE None
         ELSE None

Max(a, b) == IF a >= b THEN a ELSE b

Min(a, b) == IF a < b THEN a ELSE b

_recency_days(p, today) ==
    LET d == _pub_date_as_date(p)
    IN  IF d = None
        THEN None
        ELSE Some(Max(0, today - ToOrdinal(d[1])))

\* math.pow(2.0, -days / 365) on the ages the model's dates give.
HalfLife(days) ==
    CASE days = 0 -> 1000000
      [] days = 1 -> 998103
      [] days = 365 -> 500000
      [] days = 366 -> 499051
      [] days = 730 -> 250000
      [] days = 731 -> 249526
      [] OTHER -> 0

_recency_score_by_day(p, today) ==
    LET days == _recency_days(p, today)
    IN  IF days = None THEN 0 ELSE HalfLife(days[1])

\* math.log1p on the counts the model draws.
Log1p(n) ==
    CASE n = 0 -> 0
      [] n = 1 -> 693147
      [] n = 2 -> 1098612
      [] n = 3 -> 1386294
      [] n = 4 -> 1609438
      [] OTHER -> 1791759

\* p.influential_citations or 0
InflOrZero(p) ==
    IF p.influential_citations = None THEN 0 ELSE p.influential_citations[1]

\* importance, times ten.
importance(p, today) ==
    4 * _recency_score_by_day(p, today) + 3 * _venue_score(p.journal)
        + 3 * Log1p(InflOrZero(p))

\* _key_freshness: (has_date_flag, rd_key, -infl, -venue_score).
_key_freshness(p, today) ==
    LET rd == _recency_days(p, today)
    IN  <<IF rd # None THEN 0 ELSE 1,
          IF rd # None THEN rd[1] ELSE 1000000000,
          0 - InflOrZero(p),
          0 - _venue_score(p.journal)>>

\* Python's order on tuples of equal length.
RECURSIVE TupleLess(_, _)
TupleLess(a, b) ==
    IF a = <<>> \/ b = <<>>
    THEN FALSE
    ELSE IF Head(a) # Head(b)
         THEN Head(a) < Head(b)
         ELSE TupleLess(Tail(a), Tail(b))

\* Whether a record sorts strictly before another under a mode's key.
Before(p, q, key, today) ==
    CASE key = "citations" -> InflOrZero(p) > InflOrZero(q)
      [] key = "freshness" ->
            TupleLess(_key_freshness(p, today), _key_freshness(q, today))
      [] OTHER -> importance(p, today) > importance(q, today)

\* InsertSorted that puts a record before the records whose key equals its.
RECURSIVE InsertSorted_unstable(_, _, _, _)
InsertSorted_unstable(p, sorted, key, today) ==
    IF sorted = <<>>
    THEN <<p>>
    ELSE IF ~Before(Head(sorted), p, key, today)
         THEN <<p>> \o sorted
         ELSE <<Head(sorted)>>
                 \o InsertSorted_unstable(p, Tail(sorted), key, today)

\* sorted() is stable: a record goes after the records it does not precede.
RECURSIVE InsertSorted(_, _, _, _)
InsertSorted(p, sorted, key, today) ==
    IF sorted = <<>>
    THEN <<p>>
    ELSE IF Before(p, Head(sorted), key, today)
         THEN <<p>> \o sorted
         ELSE <<Head(sorted)>> \o InsertSorted(p, Tail(sorted), key, today)

RECURSIVE Sorted(_, _, _)
Sorted(papers, key, today) ==
    IF papers = <<>>
    THEN <<>>
    ELSE InsertSorted(papers[Len(papers)],
                      Sorted(SubSeq(papers, 1, Len(papers) - 1), key, today),
                      key, today)

\* (mode or "relevance").lower() on the modes the model draws.
ModeKey(mode) ==
    CASE mode = "citationCount" -> "citationcount"
      [] mode = "publicationDate" -> "publicationdate"
      [] mode = "" -> "relevance"
      [] OTHER -> mode

rank_papers(papers, mode, today) ==
    LET key == ModeKey(mode)
    IN  IF key \in {"influentialcitationcount", "influentialcitations",
                    "citationcount"}
        THEN Sorted(papers, "citations", today)
        ELSE IF key \in {"publicationdate", "freshness", "date", "newest"}
        THEN Sorted(papers, "freshness", today)
        ELSE IF key \in {"importance", "relevance"}
        THEN Sorted(papers, "importance", today)
        ELSE papers

Prefix(s, n) ==
    IF n >= 0
    THEN SubSeq(s, 1, Min(n, Len(s)))
    ELSE SubSeq(s, 1, Max(Len(s) + n, 0))

----------------------------------------------------------------------------
(* search_multi.py: _http_get, the client with retries.  Times are in      *)
(* milliseconds.  A body is what a 200 response parses to: its total, its  *)
(* items as the records they map to, and bad, the position of an item     *)
(* that cannot be mapped (0 when every item can).                          *)

\* _rate_limit.  Times are in units of 0.05 s: _INTERVAL is the 2.0 s of
\* S2_RPS = 0.5, GATE_JITTER the upper end of random.uniform(0, 0.05).
_INTERVAL == 40
GATE_JITTER == 1
GapCap == _INTERVAL + GATE_JITTER + 1

\* The wait of _rate_limit that is the jitter alone.
RateLimitWait_jitter_only(time, last, jitter) == jitter

\* wait = max(0.0, _INTERVAL - (now - _last)) + random.uniform(0, 0.05)
RateLimitWait(time, last, jitter) ==
    Max(0, _INTERVAL - (time - last)) + jitter

\* The gate before any caller: the lock free, nobody waiting for it,
\* _last = 0.0, and the loop's clock at time.  passes counts the calls
\* each caller has completed, and gap is the time from the pass before
\* the last to the last, as far as it is below GapCap.
GateStart(time) ==
    [fn |-> "_rate_limit", time |-> time, last |-> 0, holder |-> 0,
     waiters |-> <<>>,
     pc |-> [c \in 1..MaxCallers |-> "out"],
     wake_at |-> [c \in 1..MaxCallers |-> 0],
     passes |-> [c \in 1..MaxCallers |-> 0],
     gap |-> None]

\* `_last = loop.time()` and the end of `async with _lock`.
GateRelease(g, c) ==
    [g EXCEPT !.last = g.time, !.holder = 0, !.pc[c] = "out",
              !.passes[c] = @ + 1,
              !.gap = IF \A x \in 1..MaxCallers : g.passes[x] = 0
                      THEN None
                      ELSE Some(Min(g.time - g.last, GapCap))]

\* The caller takes the free lock, reads the clock and computes its wait;
\* with a wait of zero it passes at once, else it sleeps holding the lock.
GateAcquire(g, c, jitter) ==
    LET wait == RateLimitWait(g.time, g.last, jitter)
        held == [g EXCEPT !.holder = c, !.waiters = Tail(@)]
    IN  IF wait > 0
        THEN [held EXCEPT !.pc[c] = "sleeping", !.wake_at[c] = g.time + wait]
        ELSE GateRelease(held, c)

BACKOFF_START == 500
BACKOFF_CEILING == 8000
MAX_ATTEMPTS == 6
LAST_ATTEMPT == 5
STATUS_JITTER == 300
RETRY_STATUSES == {429, 500, 502, 503, 504}

\* {"total": 0, "data": []}
SENTINEL == [total |-> Some(0), data |-> <<>>, bad |-> 0]

\* The locals of a call before its first attempt, with the number of
\* requests sent, the number of passes of _rate_limit, the waits slept
\* after failed attempts and the outcome of the last attempt; result is
\* None while the call runs.
HttpStart ==
    [attempt |-> 0, backoff |-> BACKOFF_START, requests |-> 0, gated |-> 0,
     waits |-> <<>>, last |-> [kind |-> "none"], result |-> None]

\* HttpAttempt whose backoff doubles without a ceiling.
HttpAttempt_uncapped(h, o, jitter) ==
    LET sent == [h EXCEPT !.gated = @ + 1, !.requests = @ + 1, !.last = o]
        retry(wait) ==
            [sent EXCEPT
                !.waits = Append(@, wait),
                !.backoff = h.backoff * 2,
                !.attempt = @ + 1,
                !.result = IF h.attempt + 1 >= MAX_ATTEMPTS
                           THEN Some(SENTINEL)
                           ELSE None]
        give_up == [sent EXCEPT !.result = Some(SENTINEL)]
        unexpected == IF h.attempt >= LAST_ATTEMPT
                      THEN give_up
                      ELSE retry(h.backoff)
    IN  IF o.kind = "response" /\ o.status = 200 /\ o.parsable
        THEN [sent EXCEPT !.result = Some(o.body)]
        ELSE IF o.kind = "response" /\ o.status \in RETRY_STATUSES
        THEN retry(h.backoff + jitter)
        ELSE IF o.kind = "response" /\ o.status # 200
        THEN give_up
        ELSE IF o.kind \in {"ReadTimeout", "ConnectTimeout"}
        THEN retry(h.backoff)
        ELSE unexpected

\* One pass of `for attempt in range(6)`: _rate_limit, then the request,
\* which meets the outcome o: a response with its status, a timeout, or another exception
\* (a 200 response whose body does not parse raises one inside the try).
\* A pass that ends in `continue` after the last attempt leaves the loop,
\* and the call returns the sentinel.
HttpAttempt(h, o, jitter) ==
    LET sent == [h EXCEPT !.gated = @ + 1, !.requests = @ + 1, !.last = o]
        retry(wait) ==
            [sent EXCEPT
                !.waits = Append(@, wait),
                !.backoff = Min(h.backoff * 2, BACKOFF_CEILING),
                !.attempt = @ + 1,
                !.result = IF h.attempt + 1 >= MAX_ATTEMPTS
                           THEN Some(SENTINEL)
                           ELSE None]
        give_up == [sent EXCEPT !.result = Some(SENTINEL)]
        unexpected == IF h.attempt >= LAST_ATTEMPT
                      THEN give_up
                      ELSE retry(h.backoff)
    IN  IF o.kind = "response" /\ o.status = 200 /\ o.parsable
        THEN [sent EXCEPT !.result = Some(o.body)]
        ELSE IF o.kind = "response" /\ o.status \in RETRY_STATUSES
        THEN retry(h.backoff + jitter)
        ELSE IF o.kind = "response" /\ o.status # 200
        THEN give_up
        ELSE IF o.kind \in {"ReadTimeout", "ConnectTimeout"}
        THEN retry(h.backoff)
        ELSE unexpected

\* A call all of whose attempts meet the same outcome.
RECURSIVE HttpRun(_, _, _)
HttpRun(h, o, jitter) ==
    IF h.result # None THEN h ELSE HttpRun(HttpAttempt(h, o, jitter), o, jitter)

_http_get(o, jitter) == HttpRun(HttpStart, o, jitter)

----------------------------------------------------------------------------
(* search_multi.py: the dedup key, the client-side filter, one adapter     *)
(* call and the aggregation loop of search_papers.                         *)

UpperLetters ==
    <<"A", "B", "C", "D", "E", "F", "G", "H", "I", "J", "K", "L", "M",
      "N", "O", "P", "Q", "R", "S", "T", "U", "V", "W", "X", "Y", "Z">>

LowerLetters ==
    <<"a", "b", "c", "d", "e", "f", "g", "h", "i", "j", "k", "l", "m",
      "n", "o", "p", "q", "r", "s", "t", "u", "v", "w", "x", "y", "z">>

LowerChar(c) ==
    IF \E i \in 1..Len(UpperLetters) : UpperLetters[i] = c
    THEN LowerLetters[CHOOSE i \in 1..Len(UpperLetters) : UpperLetters[i] = c]
    ELSE c

\* s.lower()
Lower(s) == [i \in 1..Len(s) |-> LowerChar(s[i])]

\* re.sub(r"\s+", " ", s)
RECURSIVE CollapseSpaces(_)
CollapseSpaces(s) ==
    IF s = <<>>
    THEN <<>>
    ELSE IF Head(s) = " "
    THEN SPACE \o CollapseSpaces(LStrip(Tail(s)))
    ELSE <<Head(s)>> \o CollapseSpaces(Tail(s))

_norm_title(t) == CollapseSpaces(Lower(Strip(t)))

\* The truth value of an Optional[str]: None and "" are false.
Truthy(o) == o # None /\ o[1] # <<>>

\* _unique_key that compares DOIs and URLs as they are spelled.
_unique_key_case_sensitive(p) ==
    IF Truthy(p.doi)
    THEN <<"doi", p.doi[1]>>
    ELSE IF Truthy(p.url)
    THEN <<"url", p.url[1]>>
    ELSE <<"ty", _norm_title(p.title), IF p.year = None THEN 0 ELSE p.year[1]>>

_unique_key(p) ==
    IF Truthy(p.doi)
    THEN <<"doi", Lower(p.doi[1])>>
    ELSE IF Truthy(p.url)
    THEN <<"url", Lower(p.url[1])>>
    ELSE <<"ty", _norm_title(p.title), IF p.year = None THEN 0 ELSE p.year[1]>>

\* s.upper()
UpperChar(c) ==
    IF \E i \in 1..Len(LowerLetters) : LowerLetters[i] = c
    THEN UpperLetters[CHOOSE i \in 1..Len(LowerLetters) : LowerLetters[i] = c]
    ELSE c

Digits == {"0", "1", "2", "3", "4", "5", "6", "7", "8", "9"}

\* needle in hay, for strings.
IsSubstr(needle, hay) ==
    \E i \in 0..(Len(hay) - Len(needle)) :
       SubSeq(hay, i + 1, i + Len(needle)) = needle

\* The target is matched against each author, whole or as a part.
_author_match(p, target) ==
    IF ~Truthy(target)
    THEN TRUE
    ELSE LET t == Lower(Strip(target[1]))
         IN  \E k \in 1..Len(p.authors) : IsSubstr(t, Lower(p.authors[k]))

\* The characters of the venue names of the model.
Chars(v) ==
    CASE v = "ACL" ->
        <<"A", "C", "L">>
      [] v = "ADVANCES IN NEURAL INFORMATION PROCESSING SYSTEMS" ->
        <<"A", "D", "V", "A", "N", "C", "E", "S", " ", "I", "N", " ", "N",
          "E", "U", "R", "A", "L", " ", "I", "N", "F", "O", "R", "M", "A",
          "T", "I", "O", "N", " ", "P", "R", "O", "C", "E", "S", "S", "I",
          "N", "G", " ", "S", "Y", "S", "T", "E", "M", "S">>
      [] v = "ASSOCIATION FOR COMPUTATIONAL LINGUISTICS" ->
        <<"A", "S", "S", "O", "C", "I", "A", "T", "I", "O", "N", " ", "F",
          "O", "R", " ", "C", "O", "M", "P", "U", "T", "A", "T", "I", "O",
          "N", "A", "L", " ", "L", "I", "N", "G", "U", "I", "S", "T", "I",
          "C", "S">>
      [] v = "CVPR" ->
        <<"C", "V", "P", "R">>
      [] v = "EMNLP" ->
        <<"E", "M", "N", "L", "P">>
      [] v = "EMPIRICAL METHODS IN NATURAL LANGUAGE PROCESSING" ->
        <<"E", "M", "P", "I", "R", "I", "C", "A", "L", " ", "M", "E", "T",
          "H", "O", "D", "S", " ", "I", "N", " ", "N", "A", "T", "U", "R",
          "A", "L", " ", "L", "A", "N", "G", "U", "A", "G", "E", " ", "P",
          "R", "O", "C", "E", "S", "S", "I", "N", "G">>
      [] v = "ICCV" ->
        <<"I", "C", "C", "V">>
      [] v = "ICLR" ->
        <<"I", "C", "L", "R">>
      [] v = "ICML" ->
        <<"I", "C", "M", "L">>
      [] v = "IEEE CONFERENCE ON COMPUTER VISION AND PATTERN RECOGNITION" ->
        <<"I", "E", "E", "E", " ", "C", "O", "N", "F", "E", "R", "E", "N",
          "C", "E", " ", "O", "N", " ", "C", "O", "M", "P", "U", "T", "E",
          "R", " ", "V", "I", "S", "I", "O", "N", " ", "A", "N", "D", " ",
          "P", "A", "T", "T", "E", "R", "N", " ", "R", "E", "C", "O", "G",
          "N", "I", "T", "I", "O", "N">>
      [] v = "INTERNATIONAL CONFERENCE ON COMPUTER VISION" ->
        <<"I", "N", "T", "E", "R", "N", "A", "T", "I", "O", "N", "A", "L",
          " ", "C", "O", "N", "F", "E", "R", "E", "N", "C", "E", " ", "O",
          "N", " ", "C", "O", "M", "P", "U", "T", "E", "R", " ", "V", "I",
          "S", "I", "O", "N">>
      [] v = "INTERNATIONAL CONFERENCE ON LEARNING REPRESENTATIONS" ->
        <<"I", "N", "T", "E", "R", "N", "A", "T", "I", "O", "N", "A", "L",
          " ", "C", "O", "N", "F", "E", "R", "E", "N", "C", "E", " ", "O",
          "N", " ", "L", "E", "A", "R", "N", "I", "N", "G", " ", "R", "E",
          "P", "R", "E", "S", "E", "N", "T", "A", "T", "I", "O", "N", "S">>
      [] v = "INTERNATIONAL CONFERENCE ON MACHINE LEARNING" ->
        <<"I", "N", "T", "E", "R", "N", "A", "T", "I", "O", "N", "A", "L",
          " ", "C", "O", "N", "F", "E", "R", "E", "N", "C", "E", " ", "O",
          "N", " ", "M", "A", "C", "H", "I", "N", "E", " ", "L", "E", "A",
          "R", "N", "I", "N", "G">>
      [] v = "NEURIPS" ->
        <<"N", "E", "U", "R", "I", "P", "S">>
      [] v = "NIPS" ->
        <<"N", "I", "P", "S">>
      [] v = "NeurIPS" ->
        <<"N", "e", "u", "r", "I", "P", "S">>
      [] v = "Other" ->
        <<"O", "t", "h", "e", "r">>
      [] v = "Proc. of ICLR 2024" ->
        <<"P", "r", "o", "c", ".", " ", "o", "f", " ", "I", "C", "L", "R",
          " ", "2", "0", "2", "4">>
      [] v = "iclr" ->
        <<"i", "c", "l", "r">>

\* VENUE_SYNONYMS, each key with its set of names.
VENUE_SYNONYMS ==
    [NEURIPS |-> {
        "NEURIPS",
        "NIPS",
        "ADVANCES IN NEURAL INFORMATION PROCESSING SYSTEMS"},
     ICLR |-> {
        "ICLR",
        "INTERNATIONAL CONFERENCE ON LEARNING REPRESENTATIONS"},
     ICCV |-> {"ICCV", "INTERNATIONAL CONFERENCE ON COMPUTER VISION"},
     CVPR |-> {
        "CVPR",
        "IEEE CONFERENCE ON COMPUTER VISION AND PATTERN RECOGNITION"},
     EMNLP |-> {
        "EMNLP",
        "EMPIRICAL METHODS IN NATURAL LANGUAGE PROCESSING"},
     ACL |-> {"ACL", "ASSOCIATION FOR COMPUTATIONAL LINGUISTICS"},
     ICML |-> {"ICML", "INTERNATIONAL CONFERENCE ON MACHINE LEARNING"}]

\* re.sub(r"[^A-Z0-9]+", "", s.upper())
_norm_token(s) ==
    SelectSeq([i \in 1..Len(s) |-> UpperChar(s[i])],
              LAMBDA c : c \in Range(UpperLetters) \cup Digits)

\* The normalized names a wanted venue stands for: those of its synonyms,
\* or its own, and its own token.
VenueTokens(v) ==
    LET vnorm == _norm_token(Chars(v))
        keys == {k \in DOMAIN VENUE_SYNONYMS : Chars(k) = vnorm}
        syns == IF keys = {}
                THEN {v}
                ELSE VENUE_SYNONYMS[CHOOSE k \in keys : TRUE]
    IN  {_norm_token(Chars(x)) : x \in syns} \cup {vnorm}

_venue_match(p, venues) ==
    IF venues = <<>>
    THEN TRUE
    ELSE IF p.journal = None
    THEN FALSE
    ELSE LET pj == _norm_token(Chars(p.journal[1]))
             vset == UNION {VenueTokens(venues[k]) : k \in 1..Len(venues)}
         IN  \/ pj \in vset
             \/ \E v \in vset : IsSubstr(v, pj) \/ IsSubstr(pj, v)

\* A date string is the numbers it spells: <<y>>, <<y, m>> or <<y, m, d>>.
\* A string that names no date parses to None.
_parse_date_any(s, end) ==
    IF s = None
    THEN None
    ELSE LET ss == s[1]
         IN  IF Len(ss) = 1
             THEN Some(IF end THEN <<ss[1], 12, 31>> ELSE <<ss[1], 1, 1>>)
             ELSE IF Len(ss) = 2
             THEN IF ss[2] \in 1..12
                  THEN Some(IF end
                            THEN <<ss[1], ss[2], DaysInMonth(ss[1], ss[2])>>
                            ELSE <<ss[1], ss[2], 1>>)
                  ELSE None
             ELSE IF Len(ss) = 3 /\ ValidDate(ss)
             THEN Some(ss)
             ELSE None

\* _date_match that takes the end bound as the first day outside the range.
_date_match_exclusive_end(p, ds, de) ==
    IF ds = None /\ de = None
    THEN TRUE
    ELSE LET dated == IF p.publication_date # None
                         /\ ValidDate(p.publication_date[1])
                      THEN p.publication_date
                      ELSE None
             pd == IF dated = None /\ p.year # None /\ p.year[1] # 0
                   THEN Some(<<p.year[1], 7, 1>>)
                   ELSE dated
             start == _parse_date_any(ds, FALSE)
             endd == _parse_date_any(de, TRUE)
         IN  IF pd = None
             THEN FALSE
             ELSE IF start # None /\ ToOrdinal(pd[1]) < ToOrdinal(start[1])
             THEN FALSE
             ELSE IF endd # None /\ ToOrdinal(pd[1]) >= ToOrdinal(endd[1])
             THEN FALSE
             ELSE TRUE

_date_match(p, ds, de) ==
    IF ds = None /\ de = None
    THEN TRUE
    ELSE LET dated == IF p.publication_date # None
                         /\ ValidDate(p.publication_date[1])
                      THEN p.publication_date
                      ELSE None
             pd == IF dated = None /\ p.year # None /\ p.year[1] # 0
                   THEN Some(<<p.year[1], 7, 1>>)
                   ELSE dated
             start == _parse_date_any(ds, FALSE)
             endd == _parse_date_any(de, TRUE)
         IN  IF pd = None
             THEN FALSE
             ELSE IF start # None /\ ToOrdinal(pd[1]) < ToOrdinal(start[1])
             THEN FALSE
             ELSE IF endd # None /\ ToOrdinal(pd[1]) > ToOrdinal(endd[1])
             THEN FALSE
             ELSE TRUE

\* Publication types are strings; a record without types passes only a
\* request for research types.
_pubtypes_match(p, want) ==
    IF want = <<>>
    THEN TRUE
    ELSE LET want_set == {Lower(Strip(want[k])) :
                             k \in {i \in 1..Len(want) : want[i] # <<>>}}
             research_set == {<<"j", "o", "u", "r", "n", "a", "l", "a",
                                "r", "t", "i", "c", "l", "e">>,
                              <<"c", "o", "n", "f", "e", "r", "e", "n",
                                "c", "e">>}
             have_set == {Lower(p.publication_types[k]) :
                             k \in 1..Len(p.publication_types)}
         IN  IF p.publication_types = <<>>
             THEN want_set \subseteq research_set
             ELSE have_set \cap want_set # {}

_min_influential_match(p, mc) == mc = None \/ InflOrZero(p) >= mc[1]

\* _why_reject with the tests of author and venue exchanged.
_why_reject_venue_first(p, intent) ==
    IF ~_venue_match(p, intent.venues)
    THEN Some("venue_mismatch")
    ELSE IF ~_author_match(p, intent.author)
    THEN Some("author_mismatch")
    ELSE IF ~_pubtypes_match(p, intent.publication_types)
    THEN Some("pubtypes_mismatch")
    ELSE IF intent.must_have_pdf /\ ~p.open_access
    THEN Some("need_open_access_pdf")
    ELSE IF ~_date_match(p, intent.date_start, intent.date_end)
    THEN Some("date_out_of_range")
    ELSE IF ~_min_influential_match(p, intent.min_influential_citations)
    THEN Some("low_influential_citations")
    ELSE None

\* The reason of the first test that fails, without the values the code
\* prints after it, or None.
_why_reject(p, intent) ==
    IF ~_author_match(p, intent.author)
    THEN Some("author_mismatch")
    ELSE IF ~_venue_match(p, intent.venues)
    THEN Some("venue_mismatch")
    ELSE IF ~_pubtypes_match(p, intent.publication_types)
    THEN Some("pubtypes_mismatch")
    ELSE IF intent.must_have_pdf /\ ~p.open_access
    THEN Some("need_open_access_pdf")
    ELSE IF ~_date_match(p, intent.date_start, intent.date_end)
    THEN Some("date_out_of_range")
    ELSE IF ~_min_influential_match(p, intent.min_influential_citations)
    THEN Some("low_influential_citations")
    ELSE None

_apply_client_filter(items, intent) ==
    SelectSeq(items, LAMBDA p : _why_reject(p, intent) = None)

\* The records of a list whose keys are not in seen and not earlier in the
\* list, in order, with the keys added to seen.
RECURSIVE FirstSeen(_, _)
FirstSeen(items, seen) ==
    IF items = <<>>
    THEN [new |-> <<>>, seen |-> seen]
    ELSE LET k == _unique_key(Head(items))
         IN  IF k \in seen
             THEN FirstSeen(Tail(items), seen)
             ELSE LET r == FirstSeen(Tail(items), seen \cup {k})
                  IN  [new |-> <<Head(items)>> \o r.new, seen |-> r.seen]

\* What a backend does with one adapter call.  kind is "ok" (it answers
\* with items), "network" (the request fails or the status is an error),
\* "body" (the answer does not parse) or, for pubmed, "summary" (its second
\* request fails); items are the records the answer's items map to, and
\* bad is the position of an item whose mapping raises (0 for none).
Answer(kind, items, bad) == [kind |-> kind, items |-> items, bad |-> bad]

\* What an adapter call leaves: whether it raised, the list and the counts
\* it returned, the caller's seen set as it is afterwards, and the HTTP
\* requests it sent, with how many of them passed _rate_limit.
AdapterResult(raised, items, seen, fetched, unique, pages, sent, gated) ==
    [raised |-> raised, raw_items |-> items, seen |-> seen,
     raw_fetched |-> fetched, raw_unique |-> unique, pages |-> pages,
     http_requests |-> sent, gated |-> gated]

\* The locals of _search_s2_single_query before its loop; requests lists
\* the offsets requested, stop says why the loop was left.
S2Start(seen) ==
    [offset |-> 0, collected |-> <<>>, seen |-> seen, raw_fetched |-> 0,
     raw_unique |-> 0, server_total |-> None, pages |-> 0,
     requests |-> <<>>, received |-> <<>>, http_requests |-> 0, gated |-> 0,
     stop |-> "none", raised |-> FALSE]

\* `while pages < max_pages` is entered and the page at offset is asked for.
S2Request(st) == [st EXCEPT !.requests = Append(@, st.offset)]

\* S2Page that moves the offset by the new records alone.
S2Page_offset_by_new(st, data, per_page, max_pages) ==
    LET items == data.data
        server_total == IF st.server_total = None
                        THEN data.total
                        ELSE st.server_total
        got == [st EXCEPT !.server_total = server_total,
                          !.received = Append(@, Len(items))]
        mapped == FirstSeen(IF data.bad = 0
                            THEN items
                            ELSE SubSeq(items, 1, data.bad - 1), st.seen)
        collected == st.collected \o mapped.new
        page == [got EXCEPT !.pages = @ + 1,
                            !.raw_fetched = @ + Len(items),
                            !.seen = mapped.seen]
        done == [page EXCEPT !.raw_unique = @ + Len(mapped.new),
                             !.collected = collected]
    IN  IF items = <<>>
        THEN [got EXCEPT !.stop = "empty"]
        ELSE IF data.bad # 0
        THEN [page EXCEPT !.raised = TRUE, !.stop = "raised"]
        ELSE IF server_total # None
                /\ st.offset + Len(items) >= server_total[1]
        THEN [done EXCEPT !.stop = "total"]
        ELSE IF Len(collected) >= per_page
        THEN [done EXCEPT !.stop = "enough"]
        ELSE [done EXCEPT
                 !.offset = @ + Len(mapped.new),
                 !.stop = IF page.pages >= max_pages
                          THEN "max_pages"
                          ELSE "none"]

\* The rest of the loop body once _http_get has returned data: the first
\* total is kept, an empty page ends the loop, the items are mapped and
\* those with new keys collected, and the three tests decide whether
\* another page is asked for.  An item that cannot be mapped raises out of
\* the adapter, after the items before it were added to seen.
S2Page(st, data, per_page, max_pages) ==
    LET items == data.data
        server_total == IF st.server_total = None
                        THEN data.total
                        ELSE st.server_total
        got == [st EXCEPT !.server_total = server_total,
                          !.received = Append(@, Len(items))]
        mapped == FirstSeen(IF data.bad = 0
                            THEN items
                            ELSE SubSeq(items, 1, data.bad - 1), st.seen)
        collected == st.collected \o mapped.new
        page == [got EXCEPT !.pages = @ + 1,
                            !.raw_fetched = @ + Len(items),
                            !.seen = mapped.seen]
        done == [page EXCEPT !.raw_unique = @ + Len(mapped.new),
                             !.collected = collected]
    IN  IF items = <<>>
        THEN [got EXCEPT !.stop = "empty"]
        ELSE IF data.bad # 0
        THEN [page EXCEPT !.raised = TRUE, !.stop = "raised"]
        ELSE IF server_total # None
                /\ st.offset + Len(items) >= server_total[1]
        THEN [done EXCEPT !.stop = "total"]
        ELSE IF Len(collected) >= per_page
        THEN [done EXCEPT !.stop = "enough"]
        ELSE [done EXCEPT
                 !.offset = @ + Len(items),
                 !.stop = IF page.pages >= max_pages
                          THEN "max_pages"
                          ELSE "none"]

\* A 200 response with a body of no items.
EmptyPage ==
    [kind |-> "response", status |-> 200, parsable |-> TRUE,
     body |-> [total |-> None, data |-> <<>>, bad |-> 0]]

\* One pass of the loop, h being the call of _http_get it makes.
S2Pass(st, h, per_page, max_pages) ==
    S2Page([S2Request(st) EXCEPT !.http_requests = @ + h.requests,
                                 !.gated = @ + h.gated],
           h.result[1], per_page, max_pages)

\* The loop, against a server whose k-th page request meets served[k] at
\* every attempt and which has no items beyond the pages of served.
RECURSIVE S2Loop(_, _, _, _)
S2Loop(st, served, per_page, max_pages) ==
    IF st.stop # "none"
    THEN st
    ELSE S2Loop(S2Pass(st,
                       _http_get(IF served = <<>>
                                 THEN EmptyPage
                                 ELSE Head(served), 0),
                       per_page, max_pages),
                IF served = <<>> THEN <<>> ELSE Tail(served),
                per_page, max_pages)

\* `return collected_no_client_filter, stats`, or the exception.
S2Return(st) ==
    AdapterResult(st.raised, IF st.raised THEN <<>> ELSE st.collected,
                  st.seen, st.raw_fetched, st.raw_unique, st.pages,
                  st.http_requests, st.gated)

_search_s2_single_query(served, seen, per_page, max_pages) ==
    S2Return(S2Loop(S2Start(seen), served, per_page, max_pages))

\* What the attempts of one page request of the s2 adapter meet, for an
\* answer of the backend.
S2Served(answer) ==
    IF answer.kind = "network"
    THEN [kind |-> "ReadTimeout"]
    ELSE [kind |-> "response", status |-> 200,
          parsable |-> answer.kind # "body",
          body |-> [total |-> Some(Len(answer.items)), data |-> answer.items,
                    bad |-> answer.bad]]

\* The adapters of one request sent with httpx.AsyncClient itself.  A
\* failure of the request or of parsing its body is caught and answered
\* with an empty list, zero counts and failed_pages pages; the mapping loop
\* is inside a try of the adapter (in_try) or not; the items fetched are
\* counted as received or after the seen-key test; sent requests were
\* made.
OnePageAdapter(answer, seen, failed_pages, in_try, as_received, sent) ==
    LET mapped == FirstSeen(IF answer.bad = 0
                            THEN answer.items
                            ELSE SubSeq(answer.items, 1, answer.bad - 1),
                            seen)
    IN  IF answer.kind # "ok"
        THEN AdapterResult(FALSE, <<>>, seen, 0, 0, failed_pages,
                           sent, 0)
        ELSE IF answer.bad # 0
        THEN IF in_try
             THEN AdapterResult(FALSE, <<>>, mapped.seen, 0, 0, failed_pages,
                                sent, 0)
             ELSE AdapterResult(TRUE, <<>>, mapped.seen, 0, 0, 0,
                                sent, 0)
        ELSE AdapterResult(FALSE, mapped.new, mapped.seen,
                           IF as_received
                           THEN Len(answer.items)
                           ELSE Len(mapped.new),
                           Len(mapped.new), 1, sent, 0)

_search_openalex_single_query(answer, seen) ==
    OnePageAdapter(answer, seen, 0, FALSE, TRUE, 1)

_search_crossref_single_query(answer, seen) ==
    OnePageAdapter(answer, seen, 0, FALSE, TRUE, 1)

_search_arxiv_single_query(answer, seen) ==
    OnePageAdapter(answer, seen, 1, TRUE, FALSE, 1)

\* esearch, then esummary unless esearch failed or found no ids.
_search_pubmed_single_query(answer, seen) ==
    OnePageAdapter(answer, seen, 1, TRUE, FALSE,
                   IF answer.kind \in {"network", "body"}
                      \/ (answer.kind = "ok" /\ answer.items = <<>>)
                   THEN 1
                   ELSE 2)

_search_eupmc_single_query(answer, seen) ==
    OnePageAdapter(answer, seen, 1, FALSE, FALSE, 1)

\* S2_API_KEY is unset unless the environment sets it.
_HAS_KEY == FALSE

\* providers[src](query, seen), with per_page and max_pages as search_papers
\* computes them.
CallProvider(src, answer, seen, intent) ==
    LET per_page == IF _HAS_KEY
                    THEN Min(Max(intent.max_results * 3, 50), 100)
                    ELSE Max(intent.max_results * 2, 50)
        max_pages == IF _HAS_KEY THEN 4 ELSE 2
    IN  CASE src = "s2" ->
                _search_s2_single_query(<<S2Served(answer)>>, seen, per_page,
                                        max_pages)
          [] src = "openalex" -> _search_openalex_single_query(answer, seen)
          [] src = "crossref" -> _search_crossref_single_query(answer, seen)
          [] src = "arxiv" -> _search_arxiv_single_query(answer, seen)
          [] src = "pubmed" -> _search_pubmed_single_query(answer, seen)
          [] src = "eupmc" -> _search_eupmc_single_query(answer, seen)

ZeroStats == [raw_fetched |-> 0, raw_unique |-> 0, after_filter |-> 0,
              pages |-> 0]

\* seen_map, collected_map and per_source_stats before the loop; calls
\* lists the adapter calls issued, each with the records kept from it.
LoopStart(selected_sources) ==
    [seen_map |-> [s \in Range(selected_sources) |-> {}],
     collected_map |-> [s \in Range(selected_sources) |-> <<>>],
     per_source_stats |-> [s \in Range(selected_sources) |-> ZeroStats],
     calls |-> <<>>]

\* The rest of the body of `for src in selected_sources` once the adapter
\* call has ended as called: its exception counts as an empty answer with
\* zero counts; then the stats, the filter and the collection.  The seen
\* set is the caller's, so what the adapter added to it stays when the
\* adapter raises.
AfterCall(st, src, query, intent, called) ==
    LET r == IF called.raised
             THEN [called EXCEPT !.raw_items = <<>>, !.raw_fetched = 0,
                                 !.raw_unique = 0, !.pages = 0]
             ELSE called
        kept == _apply_client_filter(r.raw_items, intent)
        old == st.per_source_stats[src]
        seen_map == [x \in DOMAIN st.seen_map |->
                        IF x = src THEN r.seen ELSE st.seen_map[x]]
    IN  [seen_map |-> seen_map,
         collected_map |->
             [st.collected_map EXCEPT ![src] = st.collected_map[src] \o kept],
         per_source_stats |->
             [st.per_source_stats EXCEPT ![src] =
                 [raw_fetched |-> old.raw_fetched + r.raw_fetched,
                  raw_unique |-> old.raw_unique + r.raw_unique,
                  after_filter |-> old.after_filter + Len(kept),
                  pages |-> old.pages + r.pages]],
         calls |-> Append(st.calls,
                          [src |-> src, query |-> query, kept |-> kept,
                           raw_items |-> r.raw_items,
                           seen_before |-> st.seen_map,
                           seen_after |-> seen_map])]

\* An item of a response that the adapter's mapping to PaperMetadata
\* raises on, such as an author entry that is no dict.
MALFORMED == [malformed |-> TRUE]

\* The place of the first item of a page that cannot be mapped, 0 when
\* all can.
FirstBad(items) ==
    IF \A i \in 1..Len(items) : items[i] # MALFORMED
    THEN 0
    ELSE CHOOSE i \in 1..Len(items) :
            /\ items[i] = MALFORMED
            /\ \A j \in 1..(i - 1) : items[j] # MALFORMED

\* What a backend answers to a query: the items of feed, or nothing when
\* it is down.
AnswerOf(src, query, feed, dn) ==
    IF src \in dn
    THEN Answer("network", <<>>, 0)
    ELSE Answer("ok", feed[src][query], FirstBad(feed[src][query]))

\* OneCall with one seen set for all the backends.
OneCall_shared_seen(st, src, query, feed, dn, intent) ==
    AfterCall(st, src, query, intent,
              CallProvider(src, AnswerOf(src, query, feed, dn),
                           UNION {st.seen_map[x] : x \in DOMAIN st.seen_map},
                           intent))

\* The body of `for src in selected_sources`: the adapter is called with
\* the seen set of its backend.
OneCall(st, src, query, feed, dn, intent) ==
    AfterCall(st, src, query, intent,
              CallProvider(src, AnswerOf(src, query, feed, dn),
                           st.seen_map[src], intent))

RECURSIVE OverSources(_, _, _, _, _, _)
OverSources(st, srcs, query, feed, dn, intent) ==
    IF srcs = <<>>
    THEN st
    ELSE OverSources(OneCall(st, Head(srcs), query, feed, dn, intent),
                     Tail(srcs), query, feed, dn, intent)

\* The loop over the queries that skips none.
RECURSIVE OverQueries_no_skip(_, _, _, _, _, _)
OverQueries_no_skip(st, queries, selected_sources, feed, dn, intent) ==
    IF queries = <<>>
    THEN st
    ELSE OverQueries_no_skip(OverSources(st, selected_sources, Head(queries),
                                         feed, dn, intent),
                             Tail(queries), selected_sources, feed, dn,
                             intent)

\* `for query in queries`, skipping the empty and the wildcard query.
RECURSIVE OverQueries(_, _, _, _, _, _)
OverQueries(st, queries, selected_sources, feed, dn, intent) ==
    IF queries = <<>>
    THEN st
    ELSE LET query == Head(queries)
             after == IF Strip(query) = <<>> \/ Strip(query) = WILDCARD
                      THEN st
                      ELSE OverSources(st, selected_sources, query, feed, dn,
                                       intent)
         IN  OverQueries(after, Tail(queries), selected_sources, feed, dn,
                         intent)

\* A merge that takes the backends last to first.
RECURSIVE MergeAll_reversed(_, _)
MergeAll_reversed(srcs, collected_map) ==
    IF srcs = <<>>
    THEN <<>>
    ELSE MergeAll_reversed(Tail(srcs), collected_map)
             \o collected_map[Head(srcs)]

\* merged_all: the kept lists, in the order the backends were selected.
RECURSIVE MergeAll(_, _)
MergeAll(srcs, collected_map) ==
    IF srcs = <<>>
    THEN <<>>
    ELSE collected_map[Head(srcs)] \o MergeAll(Tail(srcs), collected_map)

\* The final pass over merged_all with global_final_seen.
FinalDedup(merged_all) == FirstSeen(merged_all, {}).new

RECURSIVE SumStat(_, _, _)
SumStat(srcs, per_source_stats, field) ==
    IF srcs = <<>>
    THEN 0
    ELSE per_source_stats[Head(srcs)][field]
             + SumStat(Tail(srcs), per_source_stats, field)

\* {"source": src, **per_source_stats[src]}
IndividualStats(src, per_source_stats) ==
    [source |-> src,
     raw_fetched |-> per_source_stats[src].raw_fetched,
     raw_unique |-> per_source_stats[src].raw_unique,
     after_filter |-> per_source_stats[src].after_filter,
     pages |-> per_source_stats[src].pages]

\* Aggregate that counts the merged list before the final pass.
Aggregate_counting_merged(selected_sources, queries, st) ==
    LET collected_final == FinalDedup(MergeAll(selected_sources,
                                               st.collected_map))
        pss == st.per_source_stats
    IN  [papers |-> collected_final,
         stats |->
             [selected_sources |-> selected_sources,
              query_combinations |-> Len(queries),
              total_pages |-> SumStat(selected_sources, pss, "pages"),
              total_raw_fetched |->
                  SumStat(selected_sources, pss, "raw_fetched"),
              total_raw_unique |->
                  SumStat(selected_sources, pss, "raw_unique"),
              total_after_filter |->
                  SumStat(selected_sources, pss, "after_filter"),
              final_unique_count |-> Len(MergeAll(selected_sources, st.collected_map)),
              individual_stats |->
                  [i \in 1..Len(selected_sources) |->
                      IndividualStats(selected_sources[i], pss)]],
         collected_map |-> st.collected_map,
         calls |-> st.calls]

\* The merge, the final pass and the statistics, from the state st the
\* loops leave.
Aggregate(selected_sources, queries, st) ==
    LET collected_final == FinalDedup(MergeAll(selected_sources,
                                               st.collected_map))
        pss == st.per_source_stats
    IN  [papers |-> collected_final,
         stats |->
             [selected_sources |-> selected_sources,
              query_combinations |-> Len(queries),
              total_pages |-> SumStat(selected_sources, pss, "pages"),
              total_raw_fetched |->
                  SumStat(selected_sources, pss, "raw_fetched"),
              total_raw_unique |->
                  SumStat(selected_sources, pss, "raw_unique"),
              total_after_filter |->
                  SumStat(selected_sources, pss, "after_filter"),
              final_unique_count |-> Len(collected_final),
              individual_stats |->
                  [i \in 1..Len(selected_sources) |->
                      IndividualStats(selected_sources[i], pss)]],
         collected_map |-> st.collected_map,
         calls |-> st.calls]

\* The loops over the queries and the backends, and what follows them.
SearchLoops(selected_sources, queries, intent, feed, dn) ==
    Aggregate(selected_sources, queries,
              OverQueries(LoopStart(selected_sources), queries,
                          selected_sources, feed, dn, intent))

\* search_papers(intent) against backends that answer feed[src][query] and
\* of which those in dn do not answer.  papers and stats are what it
\* returns; collected_map and calls show its local state at the return.
search_papers(intent, feed, dn) ==
    SearchLoops(_normalize_sources(intent.enabled_sources),
                _build_query_combinations(intent.any_groups),
                intent, feed, dn)

----------------------------------------------------------------------------
(* The inputs the model draws. *)

QueryChars == {" ", "a"}

Queries == UNION {[1..n -> QueryChars] : n \in 0..MaxQueryLen}

\* The phrases a synonym group is drawn from: empty, blank, single words, a
\* phrase of two words, and one that is already quoted.
Phrases ==
    {<<>>, <<" ">>, <<"a">>, <<"b">>, <<"c">>, <<"a", " ", "b">>,
     <<"\"", "a", " ", "b", "\"">>}

SeqsUpTo(S, n) == UNION {[1..k -> S] : k \in 0..n}

GroupLists == SeqsUpTo(SeqsUpTo(Phrases, MaxGroupLen), MaxGroups)

BackendNames == {"s2", "openalex", "crossref"}

EnabledSourceLists ==
    {<<"s2", "openalex">>, <<"s2", "openalex", "crossref">>}

\* A SearchIntent with the fields the pipeline reads; the constraints it
\* leaves out are unset.
SearchIntent(any_groups, enabled_sources, max_results, sort_by, min_infl) ==
    [any_groups |-> any_groups, enabled_sources |-> enabled_sources,
     max_results |-> max_results, sort_by |-> sort_by,
     min_influential_citations |-> min_infl,
     author |-> None, venues |-> <<>>, publication_types |-> <<>>,
     must_have_pdf |-> FALSE, date_start |-> None, date_end |-> None]

Intent(n, sources) ==
    SearchIntent(<<<<Str1("a")>>>>, Some(sources), n, "citationCount", None)

Intents ==
    {Intent(1, l) : l \in EnabledSourceLists}
        \cup {Intent(MAX_RESULTS_LIMIT + 1, <<"s2", "openalex">>)}

NoIntent == SearchIntent(<<>>, None, 0, "none", None)

\* What a backend can report through progress_callback.
ProgressEvents ==
    {[status |-> "in_progress", fetched |-> 0, total |-> None, errors |-> <<>>],
     [status |-> "completed", fetched |-> 1, total |-> Some(1), errors |-> <<>>],
     [status |-> "failed", fetched |-> 0, total |-> None, errors |-> <<"error">>]}

\* The records ranking is applied to: dated today, in the future, a year
\* ago by date and by year alone, undated, with a date that is none, and
\* two records that differ in their titles only.
RankPapers ==
    <<PaperMetadata(<<"p", "1">>, Some(2025), None, None, Some("ICLR"),
                    Some(2), Some(<<2025, 7, 1>>)),
      PaperMetadata(<<"p", "2">>, Some(2025), None, None, None,
                    Some(0), Some(<<2025, 8, 1>>)),
      PaperMetadata(<<"p", "3">>, Some(2024), None, None, Some("Other"),
                    Some(1), Some(<<2024, 7, 1>>)),
      PaperMetadata(<<"p", "4">>, Some(2024), None, None, Some("iclr"),
                    Some(1), None),
      PaperMetadata(<<"p", "5">>, None, None, None, Some("ICLR"),
                    Some(3), None),
      PaperMetadata(<<"p", "6">>, Some(0), None, None, Some("NeurIPS"),
                    None, Some(<<2024, 13, 1>>)),
      PaperMetadata(<<"p", "7">>, Some(2025), None, None, Some("NeurIPS"),
                    Some(2), Some(<<2024, 13, 1>>)),
      PaperMetadata(<<"p", "8">>, Some(2024), None, None, Some("Other"),
                    Some(1), Some(<<2024, 7, 1>>))>>

PaperSeqs == SeqsUpTo(Range(RankPapers), MaxPapers)

RankModes == {"citationCount", "publicationDate", "relevance", "unknown"}

\* The records dedup is applied to: with and without DOI and URL, in both
\* letter cases, under titles that differ in case and spacing or in a
\* word, with and without a year.
DedupPapers ==
    {PaperMetadata(t, y, d, u, None, None, None) :
        t \in {<<"a", " ", "b">>, <<"A", " ", " ", "b">>, <<"c">>},
        y \in {None, Some(2024)},
        d \in {None, Some(Str1("x")), Some(Str1("X"))},
        u \in {None, Some(Str1("u")), Some(Str1("U"))}}

MergedLists == UNION {[1..n -> DedupPapers] : n \in 1..MaxMerged}

\* What the backends answer in the aggregation: two records with one DOI
\* in two spellings, the first below the citation floor, and a third
\* known by its URL.
MergePapers ==
    <<PaperMetadata(<<"m", "1">>, Some(2024), Some(Str1("x")), None, None,
                    Some(0), None),
      PaperMetadata(<<"m", "2">>, Some(2024), Some(Str1("X")), None, None,
                    Some(2), None),
      PaperMetadata(<<"m", "3">>, Some(2024), None, Some(Str1("u")), None,
                    Some(1), None)>>

FeedLists ==
    {<<>>, <<MergePapers[1], MergePapers[3]>>,
     <<MergePapers[2], MergePapers[1]>>}

\* The intents of the aggregation: one query or two, the backends in
\* either order, with and without a citation floor.
MergeIntents ==
    {SearchIntent(g, Some(l), 1, "citationCount", m) :
        g \in {<<<<Str1("a")>>>>, <<<<Str1("a"), Str1("b")>>>>},
        l \in EnabledSourceLists \cup {<<"openalex", "s2">>},
        m \in {None, Some(1)}}

\* The pages a backend can answer with: up to MaxPageItems records.
PageLists ==
    UNION {[1..n -> Range(MergePapers)] : n \in 0..MaxPageItems}

\* What a backend can do with one adapter call: fail the request, send a
\* body that does not parse, or answer with a page none or one of whose
\* items cannot be mapped; pubmed can also fail the second request.
AdapterAnswers(src) ==
    {Answer(k, <<>>, 0) :
        k \in {"network", "body"}
               \cup (IF src = "pubmed" THEN {"summary"} ELSE {})}
        \cup UNION {{Answer("ok", l, b) : b \in 0..Len(l)} : l \in PageLists}

\* The records the filter is tried on: with and without an author, a
\* venue that is ICLR's, another or none, typed as a review or not at all,
\* open or not, dated in 2023 or known by the year 2024 alone, with and
\* without influential citations.
FilterPapers ==
    {[PaperMetadata(Str1("f"), y[1], None, None, j, i, y[2]) EXCEPT
         !.authors = a, !.publication_types = t, !.open_access = o] :
        a \in {<<>>, << <<"A", "n", "n">> >>},
        j \in {None, Some("Proc. of ICLR 2024"), Some("Other")},
        t \in {<<>>, << <<"R", "e", "v", "i", "e", "w">> >>},
        o \in BOOLEAN,
        y \in {<<Some(2024), None>>, <<Some(2023), Some(<<2023, 5, 1>>)>>},
        i \in {None, Some(2)}}

\* The intents of the filter: each of the six constraints set or not.
FilterIntents ==
    {[SearchIntent(<<<<Str1("a")>>>>, None, 1, "citationCount", m) EXCEPT
         !.author = a, !.venues = v, !.publication_types = t,
         !.must_have_pdf = o, !.date_start = d] :
        a \in {None, Some(<<"a", "n", "n">>)},
        v \in {<<>>, <<"iclr">>},
        t \in {<<>>, << <<"r", "e", "v", "i", "e", "w">> >>},
        o \in BOOLEAN,
        d \in {None, Some(<<2024>>)},
        m \in {None, Some(1)}}

\* The backend src answers every query with the record p, the others
\* with nothing.
OneRecordFeed(intent, src, p) ==
    [s \in Range(ALLOWED_SOURCES) |->
        [q \in Range(_build_query_combinations(intent.any_groups)) |->
            IF s = src THEN <<p>> ELSE <<>>]]

\* The records of the date test: with a publication date that is a date
\* or is none (29 February 2023), or without one, and with a year, the
\* year 0 or none.
DatedPapers ==
    {PaperMetadata(Str1("d"), y, None, None, None, None, d) :
        y \in {None, Some(0), Some(2023), Some(2024)},
        d \in {None, Some(<<2024, 2, 29>>), Some(<<2023, 2, 29>>),
               Some(<<2024, 7, 1>>), Some(<<2023, 12, 31>>),
               Some(<<2024, 1, 1>>)}}

\* The bounds of the date test: none, a year, a year and month (a 13th
\* month names no date), a day (29 February 2023 names none).
DateBounds ==
    {None, Some(<<2023>>), Some(<<2024>>), Some(<<2024, 2>>),
     Some(<<2024, 13>>), Some(<<2024, 2, 29>>), Some(<<2023, 2, 29>>),
     Some(<<2024, 7, 1>>)}

\* The pages of the runs in which a response can hold an item that cannot
\* be mapped, after a record or on its own.
FaultyFeedLists ==
    {<<>>, <<MergePapers[1]>>, <<MergePapers[3]>>,
     <<MergePapers[1], MALFORMED>>, <<MALFORMED>>}

\* max_results is an int of the parsed JSON with no lower bound
\* (schemas.py:53): values below, at and above the ceiling, zero and a
\* negative one.
MaxResultsValues == {-1, 0, 1, MAX_RESULTS_LIMIT, MAX_RESULTS_LIMIT + 1}

\* The spellings enabled_sources is drawn from: the six names, two of
\* them also in another case or with blanks, and a name that is none.
SourceSpellings ==
    Range(ALLOWED_SOURCES) \cup {"S2", " openalex ", "scholar"}

\* enabled_sources: unset, empty, or up to MaxSources spellings.
EnabledSourcesValues ==
    {None} \cup {Some(l) : l \in UNION {[1..n -> SourceSpellings] :
                                          n \in 0..MaxSources}}

\* Every backend answers every query with one record.
FullFeed(intent) ==
    [s \in Range(ALLOWED_SOURCES) |->
        [q \in Range(_build_query_combinations(intent.any_groups)) |->
            <<MergePapers[3]>>]]

\* What _http_get can hand the s2 adapter for a page: the sentinel, or a
\* body with or without a total, one of them with an item that cannot be
\* mapped.
PageBodies ==
    {SENTINEL}
        \cup {[total |-> t, data |-> l, bad |-> 0] :
                 t \in {None, Some(ServerTotal)}, l \in PageLists}
        \cup {[total |-> None, data |-> <<MergePapers[3]>>, bad |-> 1]}

\* The limit and the page bound the adapter is called with.
PerPages == {2, 3}
MaxPagesValues == {2, 4}

\* The seen set a call is handed: empty, or with the key of a record.
SeenSets == {{}, {_unique_key(MergePapers[1])}}

\* A body of one record.
OneItemBody == [total |-> Some(1), data |-> <<MergePapers[3]>>, bad |-> 0]

Response(status, parsable) ==
    [kind |-> "response", status |-> status, parsable |-> parsable,
     body |-> OneItemBody]

\* What an attempt of _http_get can meet: a response with a status of the
\* retry list or another, a 200 whose body parses or does not, a timeout
\* of either kind, or another exception of the transport.
HttpOutcomes ==
    {Response(st, TRUE) : st \in RETRY_STATUSES \cup {200, 404}}
        \cup {Response(200, FALSE)}
        \cup {[kind |-> k] : k \in {"ReadTimeout", "ConnectTimeout",
                                     "ConnectError"}}

\* random.uniform(0, 0.3) at its ends.
Jitters == {0, STATUS_JITTER}

\* What search_papers can hand back: a list of records, or a value that is
\* no list of records.
PaperLists == {<<RankPapers[2], RankPapers[3]>>}

\* (papers, stats) as search_papers can return them: papers = None is a value
\* that is no list of records, ~stats_ok a stats value that is no dict.
SearchResults ==
    {[papers |-> Some(l), stats_ok |-> ok] : l \in PaperLists, ok \in BOOLEAN}
        \cup {[papers |-> None, stats_ok |-> TRUE]}

\* called: search_papers was called; started: the call bound its arguments.
NoRun == [intent |-> NoIntent, called |-> FALSE, started |-> FALSE,
          papers |-> None, stats_ok |-> TRUE]

----------------------------------------------------------------------------
(* main.py: the handlers of the asynchronous interface. *)

NoResponse == [code |-> 0]

\* No GET /search request is in progress.
NoSync == [pc |-> "idle"]

\* No function is being applied on its own.
NoCalc == [fn |-> "none"]

\* get_task_status that answers for a missing task as for a failed one.
get_task_status_missing_as_failed(ts, task_id) ==
    LET found == get_task(ts, task_id)
    IN  IF found = None
        THEN [code |-> 200, task_id |-> task_id, status |-> "failed",
              error |-> "Task not found"]
        ELSE [code |-> 200, task_id |-> task_id, status |-> found[1].status,
              progress |-> found[1].progress,
              created_at |-> found[1].created_at,
              updated_at |-> found[1].updated_at]

\* GET /tasks/{task_id}
get_task_status(ts, task_id) ==
    LET found == get_task(ts, task_id)
    IN  IF found = None
        THEN [code |-> 404]
        ELSE LET task == found[1]
                 base == [code |-> 200,
                          task_id |-> task.task_id,
                          status |-> task.status,
                          progress |-> task.progress,
                          created_at |-> task.created_at,
                          updated_at |-> task.updated_at]
                 res == IF task.status = "completed"
                        THEN IF task.completed_at # None
                             THEN [results |-> task.results,
                                   completed_at |-> task.completed_at[1]]
                             ELSE [results |-> task.results]
                        ELSE <<>>
                 err == IF task.status = "failed" /\ task.errors # <<>>
                        THEN [error |-> task.errors[Len(task.errors)].message]
                        ELSE <<>>
                 errs == IF task.errors # <<>>
                         THEN [errors |-> task.errors]
                         ELSE <<>>
             IN  base @@ res @@ err @@ errs

\* SubmitRejected with the query checked after create_task.
SubmitRejected_after_create(q) ==
    /\ Len(Strip(q)) = 0
    /\ \E id \in TaskIds :
          /\ id \notin used
          /\ tasks' = create_task(tasks, id, q, now)
          /\ used' = used \cup {id}
    /\ response' = [code |-> 400]
    /\ UNCHANGED <<now, pc, run, params, down, cb_left, sync, calc>>

\* POST /tasks/search with a query that is empty or blank: HTTP 400.
SubmitRejected(q) ==
    /\ Len(Strip(q)) = 0
    /\ response' = [code |-> 400]
    /\ UNCHANGED <<tasks, now, used, pc, run, params, down, cb_left, sync, calc>>

\* POST /tasks/search: create_task, schedule execute_search_task, answer 202.
SubmitAccepted(q, id) ==
    /\ Len(Strip(q)) # 0
    /\ id \notin used
    /\ tasks' = create_task(tasks, id, q, now)
    /\ used' = used \cup {id}
    /\ pc' = [pc EXCEPT ![id] = "start"]
    /\ response' = [code |-> 202,
                    task_id |-> id,
                    status |-> tasks'[id].status,
                    created_at |-> tasks'[id].created_at]
    /\ UNCHANGED <<now, run, params, down, cb_left, sync, calc>>

create_search_task ==
    \E q \in Queries :
        \/ SubmitRejected(q)
        \/ \E id \in TaskIds : SubmitAccepted(q, id)

Poll ==
    \E id \in TaskIds :
        /\ response' = get_task_status(tasks, id)
        /\ UNCHANGED <<tasks, now, used, pc, run, params, down, cb_left, sync, calc>>

----------------------------------------------------------------------------
(* task_store.py: the cleanup job, and the clock. *)

Cleanup ==
    /\ tasks' = cleanup_expired_tasks(tasks, now)
    /\ response' = NoResponse
    /\ UNCHANGED <<now, used, pc, run, params, down, cb_left, sync, calc>>

Tick ==
    /\ now + ClockStep <= MaxTime
    /\ now' = now + ClockStep
    /\ response' = NoResponse
    /\ UNCHANGED <<tasks, used, pc, run, params, down, cb_left, sync, calc>>

----------------------------------------------------------------------------
(* task_executor.py: execute_search_task, one step per store operation it  *)
(* awaits.  pc: idle, start, parse, search_call, in_search, ranking, done. *)

\* Stage 1 begins: update_task_status(parsing), then the parser is awaited.
ExecStart(id) ==
    /\ pc[id] = "start"
    /\ tasks' = update_task_status(tasks, id, "parsing", now)
    /\ pc' = [pc EXCEPT ![id] = "parse"]
    /\ response' = NoResponse
    /\ UNCHANGED <<now, used, run, params, down, cb_left, sync, calc>>

\* AfterParse without the check of max_results.
AfterParse_unchecked(ts, id, intent, t) ==
    [store |-> update_task_status(ts, id, "searching", t),
     pc |-> "search_call"]

\* What the executor does with the intent the parser returned.
AfterParse(ts, id, intent, t) ==
    IF intent.max_results > MAX_RESULTS_LIMIT
    THEN [store |-> fail_task(ts, id, "max_results exceeds limit", t),
          pc |-> "done"]
    ELSE [store |-> update_task_status(ts, id, "searching", t),
          pc |-> "search_call"]

\* parse_user_intent returns.
ParseReturn(id) ==
    /\ pc[id] = "parse"
    /\ \E intent \in Intents :
          LET next == AfterParse(tasks, id, intent, now)
          IN  /\ tasks' = next.store
              /\ pc' = [pc EXCEPT ![id] = next.pc]
              /\ run' = [run EXCEPT ![id].intent = intent]
    /\ response' = NoResponse
    /\ UNCHANGED <<now, used, params, down, cb_left, sync, calc>>

\* parse_user_intent raises.
ParseRaise(id) ==
    /\ pc[id] = "parse"
    /\ tasks' = fail_task(tasks, id, "Failed to parse query", now)
    /\ pc' = [pc EXCEPT ![id] = "done"]
    /\ response' = NoResponse
    /\ UNCHANGED <<now, used, run, params, down, cb_left, sync, calc>>

\* What the call search_papers(intent, progress_callback=...) leads to.
AfterSearchCall(ts, id, parameters, t) ==
    IF CallBinds(SearchCallArguments, parameters)
    THEN [store |-> ts, pc |-> "in_search"]
    ELSE [store |-> fail_task(ts, id, "Search failed", t), pc |-> "done"]

SearchCall(id) ==
    /\ pc[id] = "search_call"
    /\ LET next == AfterSearchCall(tasks, id, params, now)
       IN  /\ tasks' = next.store
           /\ pc' = [pc EXCEPT ![id] = next.pc]
           /\ run' = [run EXCEPT ![id].called = TRUE,
                                  ![id].started = (next.pc = "in_search")]
    /\ response' = NoResponse
    /\ UNCHANGED <<now, used, params, down, cb_left, sync, calc>>

\* The backends search_papers runs for a task.
SelectedSources(id) == _normalize_sources(run[id].intent.enabled_sources)

\* progress_callback, called by a search_papers that takes it: one
\* update_source_progress for a selected backend.  A call may also arrive
\* after search_papers has returned.
ProgressCallback(id) ==
    /\ run[id].started
    /\ cb_left > 0
    /\ \E source \in Range(SelectedSources(id)), ev \in ProgressEvents :
          tasks' = update_source_progress(tasks, id, source, ev, now)
    /\ cb_left' = cb_left - 1
    /\ response' = NoResponse
    /\ UNCHANGED <<now, used, pc, run, params, down, sync, calc>>

\* SearchReturn without the update_task_status(ranking) of line 90.
SearchReturn_skipping_ranking(id) ==
    /\ pc[id] = "in_search"
    /\ \E r \in SearchResults :
          run' = [run EXCEPT ![id].papers = r.papers,
                             ![id].stats_ok = r.stats_ok]
    /\ pc' = [pc EXCEPT ![id] = "ranking"]
    /\ response' = NoResponse
    /\ UNCHANGED <<tasks, now, used, params, down, cb_left, sync, calc>>

\* search_papers returns (papers, stats): Stage 3 begins.
SearchReturn(id) ==
    /\ pc[id] = "in_search"
    /\ \E r \in SearchResults :
          run' = [run EXCEPT ![id].papers = r.papers,
                             ![id].stats_ok = r.stats_ok]
    /\ tasks' = update_task_status(tasks, id, "ranking", now)
    /\ pc' = [pc EXCEPT ![id] = "ranking"]
    /\ response' = NoResponse
    /\ UNCHANGED <<now, used, params, down, cb_left, sync, calc>>

\* search_papers raises.
SearchRaise(id) ==
    /\ pc[id] = "in_search"
    /\ tasks' = fail_task(tasks, id, "Search failed", now)
    /\ pc' = [pc EXCEPT ![id] = "done"]
    /\ response' = NoResponse
    /\ UNCHANGED <<now, used, run, params, down, cb_left, sync, calc>>

\* The response execute_search_task builds from the ranked, cut list.
BuildResponse(query, intent, papers_final) ==
    [query |-> query,
     normalized_intent |-> intent,
     counts |-> [after_rank_cut |-> Len(papers_final)],
     results |-> papers_final]

\* AfterRanking whose ranking failure is logged and not recorded.
AfterRanking_swallowing(ts, id, r, t) ==
    IF r.papers = None
    THEN ts
    ELSE IF ~r.stats_ok
    THEN fail_task(ts, id, "Unexpected error", t)
    ELSE LET papers_sorted == rank_papers(r.papers[1], r.intent.sort_by, TodayAt(t))
             papers_final == Prefix(papers_sorted, r.intent.max_results)
             query == IF id \in DOMAIN ts THEN ts[id].query ELSE <<>>
         IN  complete_task(ts, id,
                           BuildResponse(query, r.intent, papers_final), t)

\* Stage 3 to its end.  papers = None is a value rank_papers cannot sort;
\* ~stats_ok is a pair the response cannot be built from (the outer except).
AfterRanking(ts, id, r, t) ==
    IF r.papers = None
    THEN fail_task(ts, id, "Ranking failed", t)
    ELSE IF ~r.stats_ok
    THEN fail_task(ts, id, "Unexpected error", t)
    ELSE LET papers_sorted == rank_papers(r.papers[1], r.intent.sort_by, TodayAt(t))
             papers_final == Prefix(papers_sorted, r.intent.max_results)
             query == IF id \in DOMAIN ts THEN ts[id].query ELSE <<>>
         IN  complete_task(ts, id,
                           BuildResponse(query, r.intent, papers_final), t)

RankAndFinish(id) ==
    /\ pc[id] = "ranking"
    /\ tasks' = AfterRanking(tasks, id, run[id], now)
    /\ pc' = [pc EXCEPT ![id] = "done"]
    /\ response' = NoResponse
    /\ UNCHANGED <<now, used, run, params, down, cb_left, sync, calc>>

----------------------------------------------------------------------------
(* main.py: search, the handler of GET /search, one step per call it      *)
(* makes inside its try.  sync.pc: idle, parse, search, rank, done;        *)
(* sync.failed_at names the call that raised, sync.searched says whether   *)
(* search_papers was called.                                               *)

ZeroCounts ==
    [query_combinations |-> 0, total_raw_fetched |-> 0,
     total_raw_unique |-> 0, final_unique_count |-> 0, after_rank_cut |-> 0]

\* What `except Exception as e` returns.
ErrorPayload(user_query, e) ==
    [code |-> 200, query |-> user_query, error |-> Some(e),
     results |-> <<>>, counts |-> ZeroCounts]

\* What the try returns at its end; the dict has no error key.
SearchPayload(user_query, intent, stats, papers_final) ==
    [code |-> 200, query |-> user_query, error |-> None,
     normalized_intent |-> intent,
     results |-> papers_final,
     counts |-> [query_combinations |-> stats.query_combinations,
                 total_raw_fetched |-> stats.total_raw_fetched,
                 total_raw_unique |-> stats.total_raw_unique,
                 final_unique_count |-> stats.final_unique_count,
                 after_rank_cut |-> Len(papers_final)]]

\* The intents the parser returns to search: within and over the ceiling.
SyncIntents ==
    {Intent(1, <<"s2", "openalex">>),
     Intent(MAX_RESULTS_LIMIT + 1, <<"s2", "openalex">>)}

\* What the backends answer to the queries of an intent.
FeedsFor(intent) ==
    [BackendNames ->
        [Range(_build_query_combinations(intent.any_groups)) -> FeedLists]]

\* A GET /search request arrives.
SyncRequest ==
    /\ sync.pc \in {"idle", "done"}
    /\ \E q \in Queries :
          sync' = [pc |-> "parse", query |-> q, intent |-> NoIntent,
                   searched |-> FALSE, out |-> None, failed_at |-> "none"]
    /\ response' = NoResponse
    /\ UNCHANGED <<tasks, now, used, pc, run, params, down, cb_left, calc>>

\* search whose HTTPException leaves the handler, as one does in
\* create_search_task.
SyncAfterParse_propagating(user_query, intent) ==
    IF intent.max_results > MAX_RESULTS_LIMIT
    THEN [pc |-> "done", failed_at |-> "validation",
          response |-> [code |-> 400]]
    ELSE [pc |-> "search", failed_at |-> "none", response |-> NoResponse]

\* What search does with the intent the parser returned: the
\* HTTPException it raises over the ceiling is caught by its own except.
SyncAfterParse(user_query, intent) ==
    IF intent.max_results > MAX_RESULTS_LIMIT
    THEN [pc |-> "done", failed_at |-> "validation",
          response |-> ErrorPayload(user_query, "max_results exceeds limit")]
    ELSE [pc |-> "search", failed_at |-> "none", response |-> NoResponse]

\* parse_user_intent returns.
SyncParseReturn ==
    /\ sync.pc = "parse"
    /\ \E intent \in SyncIntents :
          LET next == SyncAfterParse(sync.query, intent)
          IN  /\ sync' = [sync EXCEPT !.pc = next.pc, !.intent = intent,
                                      !.failed_at = next.failed_at]
              /\ response' = next.response
    /\ UNCHANGED <<tasks, now, used, pc, run, params, down, cb_left, calc>>

\* parse_user_intent raises.
SyncParseRaise ==
    /\ sync.pc = "parse"
    /\ sync' = [sync EXCEPT !.pc = "done", !.failed_at = "parse"]
    /\ response' = ErrorPayload(sync.query, "parse error")
    /\ UNCHANGED <<tasks, now, used, pc, run, params, down, cb_left, calc>>

\* search_papers(intent) returns.
SyncSearchReturn ==
    /\ sync.pc = "search"
    /\ \E feed \in FeedsFor(sync.intent) :
          sync' = [sync EXCEPT
                      !.pc = "rank", !.searched = TRUE,
                      !.out = Some(search_papers(sync.intent, feed, down))]
    /\ response' = NoResponse
    /\ UNCHANGED <<tasks, now, used, pc, run, params, down, cb_left, calc>>

\* An exception leaves search_papers: the filter and the merge run outside
\* the try that guards the adapter calls.
SyncSearchRaise ==
    /\ sync.pc = "search"
    /\ sync' = [sync EXCEPT !.pc = "done", !.searched = TRUE,
                            !.failed_at = "search"]
    /\ response' = ErrorPayload(sync.query, "search error")
    /\ UNCHANGED <<tasks, now, used, pc, run, params, down, cb_left, calc>>

\* rank_papers, the cut and the payload.
SyncRank ==
    /\ sync.pc = "rank"
    /\ LET papers_sorted == rank_papers(sync.out[1].papers, sync.intent.sort_by,
                                        TodayAt(now))
           papers_final == Prefix(papers_sorted, sync.intent.max_results)
       IN  response' = SearchPayload(sync.query, sync.intent,
                                     sync.out[1].stats, papers_final)
    /\ sync' = [sync EXCEPT !.pc = "done"]
    /\ UNCHANGED <<tasks, now, used, pc, run, params, down, cb_left, calc>>

\* rank_papers raises.
SyncRankRaise ==
    /\ sync.pc = "rank"
    /\ sync' = [sync EXCEPT !.pc = "done", !.failed_at = "rank"]
    /\ response' = ErrorPayload(sync.query, "rank error")
    /\ UNCHANGED <<tasks, now, used, pc, run, params, down, cb_left, calc>>

Init ==
    /\ tasks = <<>>
    /\ now = 0
    /\ used = {}
    /\ pc = [id \in TaskIds |-> "idle"]
    /\ run = [id \in TaskIds |-> NoRun]
    /\ params = SearchPapersParams
    /\ down \in {d \in SUBSET BackendNames : Cardinality(d) <= 1}
    /\ cb_left = MaxCallbacks
    /\ response = NoResponse
    /\ sync = NoSync
    /\ calc = NoCalc

Next ==
    \/ create_search_task
    \/ Poll
    \/ Cleanup
    \/ Tick
    \/ \E id \in TaskIds : ExecStart(id)
    \/ \E id \in TaskIds : ParseReturn(id)
    \/ \E id \in TaskIds : ParseRaise(id)
    \/ \E id \in TaskIds : SearchCall(id)

Spec == Init /\ [][Next]_vars

\* The orchestrator with a search_papers that takes the progress_callback
\* keyword execute_search_task passes, which the search_papers of
\* search_multi.py does not.  Such a search_papers is not part of the sources:
\* here it is any callee that reports progress for the selected backends and
\* then returns or raises.  The clock stands still in this specification.
InitOpen ==
    /\ tasks = <<>>
    /\ now = 0
    /\ used = {}
    /\ pc = [id \in TaskIds |-> "idle"]
    /\ run = [id \in TaskIds |-> NoRun]
    /\ params = SearchCallArguments
    /\ down = {}
    /\ cb_left = MaxCallbacks
    /\ response = NoResponse
    /\ sync = NoSync
    /\ calc = NoCalc

NextOpen ==
    \/ create_search_task
    \/ Poll
    \/ \E id \in TaskIds : ExecStart(id)
    \/ \E id \in TaskIds : ParseReturn(id)
    \/ \E id \in TaskIds : ParseRaise(id)
    \/ \E id \in TaskIds : SearchCall(id)
    \/ \E id \in TaskIds : ProgressCallback(id)
    \/ \E id \in TaskIds : SearchReturn(id)
    \/ \E id \in TaskIds : SearchRaise(id)
    \/ \E id \in TaskIds : RankAndFinish(id)

OpenSpec == InitOpen /\ [][NextOpen]_vars

\* One step of a task's execution.  Under weak fairness of it no execution
\* is starved of its next step: the event loop runs a ready coroutine, and
\* each external call the execution awaits returns or raises.
ExecStep(id) ==
    \/ ExecStart(id)
    \/ ParseReturn(id)
    \/ ParseRaise(id)
    \/ SearchCall(id)
    \/ SearchReturn(id)
    \/ SearchRaise(id)
    \/ RankAndFinish(id)

\* The executions alone: tasks are submitted and run, nothing is polled.
NextRun ==
    \/ \E q \in Queries, id \in TaskIds : SubmitAccepted(q, id)
    \/ \E id \in TaskIds : ExecStep(id)
    \/ \E id \in TaskIds : ProgressCallback(id)

FairRunSpec ==
    InitOpen /\ [][NextRun]_vars /\ \A id \in TaskIds : WF_vars(ExecStep(id))

\* Both interfaces without the clock: GET /search requests one after
\* another, beside tasks that are submitted and run as far as the
\* search_papers of search_multi.py lets them.
NextSync ==
    \/ SyncRequest
    \/ SyncParseReturn
    \/ SyncParseRaise
    \/ SyncSearchReturn
    \/ SyncSearchRaise
    \/ SyncRank
    \/ SyncRankRaise
    \/ \E q \in Queries, id \in TaskIds : SubmitAccepted(q, id)
    \/ \E id \in TaskIds : ExecStart(id)
    \/ \E id \in TaskIds : ParseReturn(id)
    \/ \E id \in TaskIds : ParseRaise(id)
    \/ \E id \in TaskIds : SearchCall(id)

SyncSpec == Init /\ [][NextSync]_vars

\* The rest of the program at rest, while a function is applied on its own.
AtRest ==
    /\ tasks = <<>>
    /\ now = 0
    /\ used = {}
    /\ pc = [id \in TaskIds |-> "idle"]
    /\ run = [id \in TaskIds |-> NoRun]
    /\ params = SearchPapersParams
    /\ cb_left = MaxCallbacks
    /\ response = NoResponse
    /\ sync = NoSync

restvars == <<tasks, now, used, pc, run, params, down, cb_left, response, sync>>

\* _build_query_combinations applied to the groups of an intent.
InitQuery ==
    /\ AtRest
    /\ down = {}
    /\ \E g \in GroupLists :
          calc = [fn |-> "_build_query_combinations", any_groups |-> g,
                  done |-> FALSE, queries |-> <<>>]

BuildQueries ==
    /\ calc.fn = "_build_query_combinations"
    /\ ~calc.done
    /\ calc' = [calc EXCEPT
                   !.done = TRUE,
                   !.queries = _build_query_combinations(calc.any_groups)]
    /\ UNCHANGED restvars

QuerySpec == InitQuery /\ [][BuildQueries]_vars

\* rank_papers applied to a list of records, and again to its own result.
InitRank ==
    /\ AtRest
    /\ down = {}
    /\ \E l \in PaperSeqs, m \in RankModes :
          calc = [fn |-> "rank_papers", papers |-> l, mode |-> m,
                  step |-> 0, ranked |-> <<>>, reranked |-> <<>>]

Rank ==
    /\ calc.fn = "rank_papers"
    /\ calc.step = 0
    /\ calc' = [calc EXCEPT
                   !.step = 1,
                   !.ranked = rank_papers(calc.papers, calc.mode, TodayAt(now))]
    /\ UNCHANGED restvars

Rerank ==
    /\ calc.fn = "rank_papers"
    /\ calc.step = 1
    /\ calc' = [calc EXCEPT
                   !.step = 2,
                   !.reranked = rank_papers(calc.ranked, calc.mode, TodayAt(now))]
    /\ UNCHANGED restvars

NextRank == Rank \/ Rerank

RankSpec == InitRank /\ [][NextRank]_vars

\* One call of _http_get, attempt by attempt.
InitHttp ==
    /\ AtRest
    /\ down = {}
    /\ calc = [fn |-> "_http_get", h |-> HttpStart]

Attempt ==
    /\ calc.fn = "_http_get"
    /\ calc.h.result = None
    /\ \E o \in HttpOutcomes, jitter \in Jitters :
          calc' = [calc EXCEPT !.h = HttpAttempt(calc.h, o, jitter)]
    /\ UNCHANGED restvars

\* Every request carries a timeout of 25 s, so each attempt ends.
HttpSpec == InitHttp /\ [][Attempt]_vars /\ WF_vars(Attempt)

\* One call of an adapter, as search_papers makes it.
InitAdapter ==
    /\ AtRest
    /\ down = {}
    /\ \E src \in Range(ALLOWED_SOURCES), seen \in SeenSets :
          \E answer \in AdapterAnswers(src) :
             calc = [fn |-> "adapter", src |-> src, answer |-> answer,
                     seen |-> seen, out |-> None]

CallAdapter ==
    /\ calc.fn = "adapter"
    /\ calc.out = None
    /\ calc' = [calc EXCEPT
                   !.out = Some(CallProvider(calc.src, calc.answer, calc.seen,
                                             Intent(1, <<"s2">>)))]
    /\ UNCHANGED restvars

AdapterSpec == InitAdapter /\ [][CallAdapter]_vars

\* One call of the s2 adapter, page by page: a page is requested, and
\* what _http_get returns for it is handled.
InitPaging ==
    /\ AtRest
    /\ down = {}
    /\ \E per_page \in PerPages, max_pages \in MaxPagesValues :
          calc = [fn |-> "s2_paging", st |-> S2Start({}), waiting |-> FALSE,
                  per_page |-> per_page, max_pages |-> max_pages]

PageRequest ==
    /\ calc.fn = "s2_paging"
    /\ ~calc.waiting
    /\ calc.st.stop = "none"
    /\ calc.st.pages < calc.max_pages
    /\ calc' = [calc EXCEPT !.st = S2Request(calc.st), !.waiting = TRUE]
    /\ UNCHANGED restvars

PageResponse ==
    /\ calc.fn = "s2_paging"
    /\ calc.waiting
    /\ \E data \in PageBodies :
          calc' = [calc EXCEPT
                      !.st = S2Page(calc.st, data, calc.per_page,
                                    calc.max_pages),
                      !.waiting = FALSE]
    /\ UNCHANGED restvars

NextPaging == PageRequest \/ PageResponse

PagingSpec == InitPaging /\ [][NextPaging]_vars

\* search_papers applied to an intent with any enabled_sources, against
\* six backends that answer.
InitSelect ==
    /\ AtRest
    /\ down = {}
    /\ \E e \in EnabledSourcesValues :
          calc = [fn |-> "select",
                  intent |-> SearchIntent(<<<<Str1("a")>>>>, e, 1,
                                          "citationCount", None),
                  out |-> None]

Select ==
    /\ calc.fn = "select"
    /\ calc.out = None
    /\ calc' = [calc EXCEPT
                   !.out = Some(search_papers(calc.intent,
                                              FullFeed(calc.intent), down))]
    /\ UNCHANGED restvars

SelectSpec == InitSelect /\ [][Select]_vars

\* search_papers applied to an intent with any groups of phrases, against
\* backends that answer.
InitExpand ==
    /\ AtRest
    /\ down = {}
    /\ \E g \in GroupLists :
          calc = [fn |-> "expand",
                  intent |-> SearchIntent(g, Some(<<"openalex", "pubmed">>),
                                          1, "citationCount", None),
                  out |-> None]

Expand ==
    /\ calc.fn = "expand"
    /\ calc.out = None
    /\ calc' = [calc EXCEPT
                   !.out = Some(search_papers(calc.intent,
                                              FullFeed(calc.intent), down))]
    /\ UNCHANGED restvars

ExpandSpec == InitExpand /\ [][Expand]_vars

\* search_papers applied to an intent with constraints, against one
\* backend that answers with one record.
InitFilter ==
    /\ AtRest
    /\ down = {}
    /\ \E p \in FilterPapers, i \in FilterIntents,
          src \in Range(ALLOWED_SOURCES) :
          calc = [fn |-> "filter", p |-> p, src |-> src,
                  intent |-> [i EXCEPT !.enabled_sources = Some(<<src>>)],
                  reason |-> None, out |-> None]

Filter ==
    /\ calc.fn = "filter"
    /\ calc.out = None
    /\ calc' = [calc EXCEPT
                   !.reason = _why_reject(calc.p, calc.intent),
                   !.out = Some(search_papers(
                                   calc.intent,
                                   OneRecordFeed(calc.intent, calc.src,
                                                 calc.p),
                                   down))]
    /\ UNCHANGED restvars

FilterSpec == InitFilter /\ [][Filter]_vars

\* Callers of _rate_limit in one event loop: each enters, waits for the
\* lock in turn, sleeps its wait and passes, up to MaxPasses times (an
\* attempt of _http_get, first or repeated, is one entry).
InitGate ==
    /\ AtRest
    /\ down = {}
    /\ \E time \in {0, _INTERVAL} : calc = GateStart(time)

GateEnter(c) ==
    /\ calc.fn = "_rate_limit"
    /\ calc.pc[c] = "out"
    /\ calc.passes[c] < MaxPasses
    /\ calc' = [calc EXCEPT !.pc[c] = "queued", !.waiters = Append(@, c)]
    /\ UNCHANGED restvars

GateTake(c) ==
    /\ calc.fn = "_rate_limit"
    /\ calc.holder = 0
    /\ calc.waiters # <<>>
    /\ Head(calc.waiters) = c
    /\ \E jitter \in {0, GATE_JITTER} : calc' = GateAcquire(calc, c, jitter)
    /\ UNCHANGED restvars

GateWake(c) ==
    /\ calc.fn = "_rate_limit"
    /\ calc.pc[c] = "sleeping"
    /\ calc.time >= calc.wake_at[c]
    /\ calc' = GateRelease(calc, c)
    /\ UNCHANGED restvars

GateTick ==
    /\ calc.fn = "_rate_limit"
    /\ calc.time < MaxClock
    /\ calc' = [calc EXCEPT !.time = @ + 1]
    /\ UNCHANGED restvars

NextGate ==
    \/ \E c \in 1..MaxCallers : GateEnter(c) \/ GateTake(c) \/ GateWake(c)
    \/ GateTick

GateSpec == InitGate /\ [][NextGate]_vars

\* _date_match applied to a record and two bounds.
InitDate ==
    /\ AtRest
    /\ down = {}
    /\ \E p \in DatedPapers, ds \in DateBounds, de \in DateBounds :
          calc = [fn |-> "_date_match", p |-> p, ds |-> ds, de |-> de,
                  out |-> None]

DateMatch ==
    /\ calc.fn = "_date_match"
    /\ calc.out = None
    /\ calc' = [calc EXCEPT !.out = Some(_date_match(calc.p, calc.ds, calc.de))]
    /\ UNCHANGED restvars

DateSpec == InitDate /\ [][DateMatch]_vars

\* The ranking and the cut both interfaces apply to the list search_papers
\* returned, for an intent that passed the check of max_results.
InitCut ==
    /\ AtRest
    /\ down = {}
    /\ \E l \in PaperSeqs, m \in {"citationCount", "publicationDate"} :
          \E n \in MaxResultsValues :
             calc = [fn |-> "rank_cut", papers |-> l,
                     intent |-> SearchIntent(<<<<Str1("a")>>>>, None, n, m,
                                             None),
                     out |-> None]

RankCut ==
    /\ calc.fn = "rank_cut"
    /\ calc.out = None
    /\ calc.intent.max_results <= MAX_RESULTS_LIMIT
    /\ LET papers_sorted == rank_papers(calc.papers, calc.intent.sort_by,
                                        TodayAt(now))
           papers_final == Prefix(papers_sorted, calc.intent.max_results)
       IN  calc' = [calc EXCEPT
                      !.out = Some([papers_sorted |-> papers_sorted,
                                    results |-> papers_final,
                                    after_rank_cut |-> Len(papers_final)])]
    /\ UNCHANGED restvars

CutSpec == InitCut /\ [][RankCut]_vars

\* The store on its own: its operations called one after another with any
\* task id, one that is in the store, one that was evicted or one that was
\* never created, while the clock advances and the cleanup job runs.
\* calc.last names the operation called last and the id it was given.
InitStore ==
    /\ AtRest
    /\ down = {}
    /\ calc = [fn |-> "store", ops |-> 0, last |-> [op |-> "none", id |-> 0]]

StoreCalled(op, id) ==
    /\ calc.fn = "store"
    /\ calc.ops < MaxStoreOps
    /\ calc' = [calc EXCEPT !.ops = @ + 1, !.last = [op |-> op, id |-> id]]
    /\ response' = NoResponse
    /\ UNCHANGED <<now, pc, run, params, down, cb_left, sync>>

StoreCreate ==
    \E id \in TaskIds \ used :
        /\ StoreCalled("create_task", id)
        /\ tasks' = create_task(tasks, id, Str1("a"), now)
        /\ used' = used \cup {id}

StoreUpdateStatus ==
    \E id \in TaskIds, status \in {"parsing", "searching", "ranking"} :
        /\ StoreCalled("update_task_status", id)
        /\ tasks' = update_task_status(tasks, id, status, now)
        /\ UNCHANGED used

StoreUpdateProgress ==
    \E id \in TaskIds, ev \in ProgressEvents :
        /\ StoreCalled("update_source_progress", id)
        /\ tasks' = update_source_progress(tasks, id, "s2", ev, now)
        /\ UNCHANGED used

StoreComplete ==
    \E id \in TaskIds :
        /\ StoreCalled("complete_task", id)
        /\ tasks' = complete_task(tasks, id,
                                  BuildResponse(Str1("a"),
                                                Intent(1, <<"s2">>), <<>>),
                                  now)
        /\ UNCHANGED used

StoreFail ==
    \E id \in TaskIds :
        /\ StoreCalled("fail_task", id)
        /\ tasks' = fail_task(tasks, id, "Search failed", now)
        /\ UNCHANGED used

StoreCleanup == calc.fn = "store" /\ Cleanup

StoreTick == calc.fn = "store" /\ Tick

NextStore ==
    \/ StoreCreate
    \/ StoreUpdateStatus
    \/ StoreUpdateProgress
    \/ StoreComplete
    \/ StoreFail
    \/ StoreCleanup
    \/ StoreTick

StoreSpec == InitStore /\ [][NextStore]_vars

\* The final dedup pass applied to a merged list.
InitDedup ==
    /\ AtRest
    /\ down = {}
    /\ \E l \in MergedLists :
          calc = [fn |-> "final_dedup", merged_all |-> l, done |-> FALSE,
                  collected_final |-> <<>>]

Dedup ==
    /\ calc.fn = "final_dedup"
    /\ ~calc.done
    /\ calc' = [calc EXCEPT
                   !.done = TRUE,
                   !.collected_final = FinalDedup(calc.merged_all)]
    /\ UNCHANGED restvars

DedupSpec == InitDedup /\ [][Dedup]_vars

\* search_papers applied to an intent, against backends that answer each
\* query with a list of FeedLists and of which at most one raises.
InitMerge ==
    /\ AtRest
    /\ down \in {{}} \cup {{b} : b \in BackendNames}
    /\ \E i \in MergeIntents :
          \E f \in [BackendNames ->
                      [Range(_build_query_combinations(i.any_groups))
                          -> FeedLists]] :
             calc = [fn |-> "search_papers", intent |-> i, feed |-> f,
                     done |-> FALSE, out |-> None]

Merge ==
    /\ calc.fn = "search_papers"
    /\ ~calc.done
    /\ calc' = [calc EXCEPT
                   !.done = TRUE,
                   !.out = Some(search_papers(calc.intent, calc.feed, down))]
    /\ UNCHANGED restvars

MergeSpec == InitMerge /\ [][Merge]_vars

\* search_papers with two queries against s2, openalex and arxiv, each of
\* whose responses can hold an item that cannot be mapped.
InitFaulty ==
    /\ AtRest
    /\ down = {}
    /\ \E f \in [{"s2", "openalex", "arxiv"} ->
                   [{Str1("a"), Str1("b")} -> FaultyFeedLists]] :
          calc = [fn |-> "search_papers",
                  intent |-> SearchIntent(<<<<Str1("a"), Str1("b")>>>>,
                                          Some(<<"openalex", "arxiv">>), 1,
                                          "citationCount", None),
                  feed |-> f, done |-> FALSE, out |-> None]

FaultySpec == InitFaulty /\ [][Merge]_vars

----------------------------------------------------------------------------
(* The claims. *)

StatusOf(id) == tasks[id].status

AllowedTransitions ==
    {<<"created", "parsing">>, <<"parsing", "searching">>,
     <<"searching", "ranking">>, <<"ranking", "completed">>}
        \cup {<<x, "failed">> : x \in TaskStatusValues \ TerminalStatuses}

\* C1: every change of a task's status made by a run of execute_search_task
\* is created->parsing, parsing->searching, searching->ranking,
\* ranking->completed, or X->failed with X non-terminal.
C1_StatusChangesFollowTheStages ==
    [][\A id \in TaskIds :
          (id \in DOMAIN tasks /\ id \in DOMAIN tasks'
             /\ tasks'[id].status # tasks[id].status)
          => <<tasks[id].status, tasks'[id].status>> \in AllowedTransitions]_vars

C1_Witness ==
    \E id \in DOMAIN tasks : pc[id] = "done" /\ StatusOf(id) = "completed"

AbortMessages ==
    {"Failed to parse query", "max_results exceeds limit", "Search failed",
     "Ranking failed", "Unexpected error"}

LastError(id) == tasks[id].errors[Len(tasks[id].errors)]

\* C2: every execution of execute_search_task ends, and ends with the task
\* completed or failed; a task that failed carries the abort path's message
\* with the time of the failure, and no execution that has ended leaves a
\* non-terminal status.
C2_EveryRunEndsTerminal ==
    /\ [](\A id \in DOMAIN tasks :
            /\ pc[id] = "done" => StatusOf(id) \in TerminalStatuses
            /\ StatusOf(id) = "failed" =>
                  /\ tasks[id].errors # <<>>
                  /\ LastError(id).message \in AbortMessages
                  /\ Some(LastError(id).timestamp) = tasks[id].completed_at)
    /\ \A id \in TaskIds : (pc[id] = "start") ~> (pc[id] = "done")

C2_Witness ==
    \E id \in DOMAIN tasks :
        /\ pc[id] = "done"
        /\ StatusOf(id) = "failed"
        /\ LastError(id).message = "Unexpected error"

C4_FailedHasPercentZero ==
    \A id \in DOMAIN tasks :
        StatusOf(id) = "failed" =>
            /\ tasks[id].progress.overall_percent = 0
            /\ Len(tasks[id].errors) >= 1

IsPoll(r) == r.code = 200

\* C5: a poll response carries results exactly when its status is completed
\* and an error only when its status is failed; a completed task has percent
\* 100 and the whole response stored, and any other task stores no results.
C5_ResultsIffCompleted ==
    /\ IsPoll(response) =>
          /\ ("results" \in DOMAIN response /\ response.results # None)
                <=> response.status = "completed"
          /\ "error" \in DOMAIN response => response.status = "failed"
    /\ \A id \in DOMAIN tasks :
          IF StatusOf(id) = "completed"
          THEN /\ tasks[id].progress.overall_percent = 100
               /\ tasks[id].results # None
               /\ tasks[id].results[1].query = tasks[id].query
               /\ tasks[id].results[1].normalized_intent = run[id].intent
               /\ tasks[id].results[1].counts.after_rank_cut
                     = Len(tasks[id].results[1].results)
          ELSE tasks[id].results = None

C5_Witness ==
    /\ IsPoll(response)
    /\ response.status = "completed"
    /\ Len(response.results[1].results) = 1

CompletedAmong(id, names) ==
    Cardinality({i \in 1..Len(tasks[id].progress.sources) :
                    /\ tasks[id].progress.sources[i].name \in names
                    /\ tasks[id].progress.sources[i].status = "completed"})

\* C6: in stage searching the overall percent is 25 + 50 * completed /
\* selected, rounded down, with the number of backends selected for the task
\* as the denominator.
C6_PercentOverSelectedBackends ==
    \A id \in DOMAIN tasks :
        (tasks[id].progress.stage = "searching" /\ run[id].started) =>
            LET selected == Range(SelectedSources(id))
            IN  tasks[id].progress.overall_percent
                  = 25 + ((50 * CompletedAmong(id, selected))
                             \div Cardinality(selected))

AllReported(id) ==
    \A name \in Range(SelectedSources(id)) :
        \E i \in 1..Len(tasks[id].progress.sources) :
            /\ tasks[id].progress.sources[i].name = name
            /\ tasks[id].progress.sources[i].status \in {"completed", "failed"}

\* C7: the search stage reports every selected backend through the progress
\* callback: once search_papers has been called and the task has left the
\* stage searching, its progress map has an entry for every selected backend,
\* completed or failed.
C7_EverySelectedBackendReported ==
    \A id \in DOMAIN tasks :
        (run[id].called /\ tasks[id].progress.stage # "searching")
            => AllReported(id)

C9_FailureKeepsProgress ==
    [][\A id \in TaskIds :
          (id \in DOMAIN tasks /\ id \in DOMAIN tasks'
             /\ StatusOf(id) # "failed" /\ tasks'[id].status = "failed")
          => /\ tasks'[id].progress.sources = tasks[id].progress.sources
             /\ Len(tasks'[id].errors) = Len(tasks[id].errors) + 1
             /\ SubSeq(tasks'[id].errors, 1, Len(tasks[id].errors))
                   = tasks[id].errors
             /\ tasks'[id].errors[Len(tasks'[id].errors)].timestamp = now
             /\ tasks'[id].results = None]_vars

C9_Witness ==
    \E id \in DOMAIN tasks :
        /\ StatusOf(id) = "failed"
        /\ Len(tasks[id].progress.sources) = 2
        /\ tasks[id].progress.sources[1].fetched = 1

\* C10: with one of three selected backends erroring out on every call, a
\* task whose search was called still ends completed.
C10_OneBackendDownStillCompletes ==
    \A id \in DOMAIN tasks :
        (/\ pc[id] = "done"
         /\ run[id].called
         /\ Len(SelectedSources(id)) = 3
         /\ Cardinality(down \cap Range(SelectedSources(id))) = 1)
        => StatusOf(id) = "completed"

\* C12: a submission with an empty or blank query is answered 400 and leaves
\* the store, the ids handed out and every execution as they were; an
\* accepted submission adds exactly one task, whose query is not blank,
\* schedules its execution and reports the status created.
C12_BlankQueryCreatesNothing ==
    [][/\ response'.code = 400 =>
             /\ tasks' = tasks
             /\ used' = used
             /\ pc' = pc
       /\ response'.code = 202 =>
             LET id == response'.task_id
             IN  /\ id \notin DOMAIN tasks
                 /\ DOMAIN tasks' = DOMAIN tasks \cup {id}
                 /\ \A other \in DOMAIN tasks : tasks'[other] = tasks[other]
                 /\ Len(Strip(tasks'[id].query)) > 0
                 /\ tasks'[id].status = "created"
                 /\ response'.status = "created"
                 /\ pc[id] = "idle" /\ pc'[id] = "start"
                 /\ \A other \in TaskIds \ {id} : pc'[other] = pc[other]
       /\ DOMAIN tasks' # DOMAIN tasks /\ DOMAIN tasks \subseteq DOMAIN tasks'
             => response'.code = 202]_vars

\* A blank query is rejected while the store holds a task.
C12_Witness ==
    /\ response.code = 400
    /\ DOMAIN tasks # {}

\* C13: a poll of an id that is not in the store is answered 404, without
\* any task status; a poll answered 200 is of a task in the store; and no
\* poll creates or changes a task.
C13_MissingTaskIsNotFound ==
    [][/\ \A id \in TaskIds :
             (id \notin DOMAIN tasks /\ response' = get_task_status(tasks, id))
                => /\ response'.code = 404
                   /\ "status" \notin DOMAIN response'
       /\ response'.code = 404 =>
             /\ tasks' = tasks
             /\ \E id \in TaskIds : id \notin DOMAIN tasks
       /\ response'.code = 200 =>
             /\ tasks' = tasks
             /\ response'.task_id \in DOMAIN tasks
             /\ response'.status = tasks[response'.task_id].status]_vars

\* A poll is answered 404 for a task that cleanup has evicted: every id has
\* been handed out and the other task is still in the store.
C13_Witness ==
    /\ response.code = 404
    /\ used = TaskIds
    /\ Cardinality(DOMAIN tasks) = 1

IsCleanupStep ==
    /\ response' = NoResponse
    /\ pc' = pc /\ run' = run /\ used' = used /\ now' = now

\* C14: a task has an expiry exactly when it is completed or failed, the
\* expiry is its completion time plus 30 minutes, a task leaves the store
\* only when its expiry is strictly before now, and a cleanup removes every
\* such task.
C14_ExpiryIffTerminal ==
    /\ [](\A id \in DOMAIN tasks :
            /\ tasks[id].expires_at # None
                  <=> StatusOf(id) \in TerminalStatuses
            /\ StatusOf(id) \in TerminalStatuses =>
                  /\ tasks[id].completed_at # None
                  /\ tasks[id].expires_at = Some(tasks[id].completed_at[1] + 30))
    /\ [][\A id \in DOMAIN tasks :
             LET expired == /\ tasks[id].expires_at # None
                            /\ tasks[id].expires_at[1] < now
             IN  /\ id \notin DOMAIN tasks' => expired
                 /\ (IsCleanupStep /\ expired) => id \notin DOMAIN tasks']_vars

\* One task has been evicted while another, whose expiry is now, is kept.
C14_Witness ==
    /\ \E id \in used : id \notin DOMAIN tasks
    /\ \E id \in DOMAIN tasks : tasks[id].expires_at = Some(now)

HasSpace(w) == \E i \in 1..Len(w) : w[i] = " "

IsQuoted(w) == Len(w) >= 1 /\ w[1] = "\"" /\ w[Len(w)] = "\""

\* The groups that survive: blank phrases dropped, then empty groups.
SurvivingGroups(groups) ==
    SelectSeq([i \in 1..Len(groups) |->
                  SelectSeq(groups[i], LAMBDA t : Strip(t) # <<>>)],
              LAMBDA g : g # <<>>)

\* How a surviving phrase is written in a query.
Written(t) ==
    LET w == Strip(t)
    IN  IF HasSpace(w) /\ ~IsQuoted(w) THEN QUOTE \o w \o QUOTE ELSE w

RECURSIVE SizeProduct(_, _)
SizeProduct(groups, i) ==
    IF i > Len(groups) THEN 1 ELSE Len(groups[i]) * SizeProduct(groups, i + 1)

\* The phrase of group i in the k-th string: the first group varies slowest.
ChosenIn(groups, i, k) ==
    groups[i][(((k - 1) \div SizeProduct(groups, i + 1)) % Len(groups[i])) + 1]

\* The phrases of groups i.. in the k-th string, one space between two.
RECURSIVE ExpectedFrom(_, _, _)
ExpectedFrom(groups, i, k) ==
    IF i = Len(groups)
    THEN Written(ChosenIn(groups, i, k))
    ELSE Written(ChosenIn(groups, i, k)) \o <<" ">>
            \o ExpectedFrom(groups, i + 1, k)

\* C18: the expansion has one string per choice of one phrase from each
\* surviving group, the phrases in group order with one space between
\* them and the first group varying slowest; a phrase of several words is
\* in double quotes and a single word is not; [[a,b],[c]] gives "a c" and
\* "b c"; with no surviving group the expansion is the wildcard alone.
C18_ExpansionIsTheProduct ==
    (calc.fn = "_build_query_combinations" /\ calc.done) =>
        LET groups == SurvivingGroups(calc.any_groups)
            queries == calc.queries
        IN  /\ groups = <<>> => queries = << <<"*">> >>
            /\ groups # <<>> =>
                  /\ Len(queries) = SizeProduct(groups, 1)
                  /\ \A k \in 1..Len(queries) :
                        queries[k] = ExpectedFrom(groups, 1, k)
            /\ \A i \in 1..Len(groups) : \A j \in 1..Len(groups[i]) :
                  LET w == Strip(groups[i][j])
                  IN  IF HasSpace(w)
                      THEN IsQuoted(Written(groups[i][j]))
                      ELSE Written(groups[i][j]) = w
            /\ calc.any_groups = << <<(<<"a">>), (<<"b">>)>>, <<(<<"c">>)>> >>
                  => queries = << <<"a", " ", "c">>, <<"b", " ", "c">> >>

\* Two groups of two phrases, one of them of two words, give four strings.
C18_Witness ==
    /\ calc.fn = "_build_query_combinations"
    /\ calc.done
    /\ Len(calc.queries) = 4
    /\ calc.queries[1] = <<"a", " ", "\"", "a", " ", "b", "\"">>
    /\ calc.queries[2] = <<"a", " ", "c">>

\* C19: ranking the result of a ranking again, in the same mode, gives the
\* same order, also for records whose keys tie.
C19_RerankingChangesNothing ==
    (calc.fn = "rank_papers" /\ calc.step = 2) => calc.reranked = calc.ranked

\* Three records were reordered by citations, two of them tied and kept in
\* the order they came in.
C19_Witness ==
    /\ calc.fn = "rank_papers"
    /\ calc.step = 2
    /\ calc.mode = "citationCount"
    /\ calc.papers = <<RankPapers[8], RankPapers[3], RankPapers[1]>>
    /\ calc.ranked = <<RankPapers[1], RankPapers[8], RankPapers[3]>>

\* The effective date of a record, as an ordinal: its publication date, else
\* 1 July of its year, else none.
EffectiveDay(p) ==
    LET d == _pub_date_as_date(p)
    IN  IF d = None THEN None ELSE Some(ToOrdinal(d[1]))

\* C20: in freshness mode a record with an effective date is above every
\* record without one; of two dated records the more recent is first; and
\* records of equal date are in descending order of influential citations,
\* then of venue score.
C20_FreshnessNewestFirst ==
    (calc.fn = "rank_papers" /\ calc.step >= 1 /\ calc.mode = "publicationDate")
    => \A i, j \in 1..Len(calc.ranked) :
          i < j =>
            LET a == calc.ranked[i]
                b == calc.ranked[j]
                da == EffectiveDay(a)
                db == EffectiveDay(b)
            IN  /\ ~(da = None /\ db # None)
                /\ (da # None /\ db # None) =>
                      /\ da[1] >= db[1]
                      /\ da[1] = db[1] =>
                            /\ InflOrZero(a) >= InflOrZero(b)
                            /\ InflOrZero(a) = InflOrZero(b) =>
                                  _venue_score(a.journal)
                                     >= _venue_score(b.journal)

\* x and y are the same string up to the case of their letters.
SameLetters(x, y) ==
    /\ Len(x) = Len(y)
    /\ \A i \in 1..Len(x) :
          \/ x[i] = y[i]
          \/ \E k \in 1..Len(UpperLetters) :
                {x[i], y[i]} = {UpperLetters[k], LowerLetters[k]}

\* The words of a title: its maximal runs of characters other than spaces.
RECURSIVE TitleWords(_)
TitleWords(t) ==
    LET s == LStrip(t)
        n == IF \E i \in 1..Len(s) : s[i] = " "
             THEN CHOOSE i \in 1..Len(s) :
                     s[i] = " " /\ \A j \in 1..(i - 1) : s[j] # " "
             ELSE Len(s) + 1
    IN  IF s = <<>>
        THEN <<>>
        ELSE <<SubSeq(s, 1, n - 1)>> \o TitleWords(SubSeq(s, n, Len(s)))

\* Two titles are equal once whitespace is normalized and case is dropped.
SameTitle(t, u) ==
    /\ Len(TitleWords(t)) = Len(TitleWords(u))
    /\ \A i \in 1..Len(TitleWords(t)) :
          SameLetters(TitleWords(t)[i], TitleWords(u)[i])

RECURSIVE Flatten(_)
Flatten(lists) ==
    IF lists = <<>> THEN <<>> ELSE Head(lists) \o Flatten(Tail(lists))

\* The positions of a list that hold the first record of their key.
FirstOccurrences(l) ==
    {j \in 1..Len(l) :
        \A i \in 1..(j - 1) : _unique_key(l[i]) # _unique_key(l[j])}

\* The queries search_papers issues for an intent: its combinations, but
\* for the wildcard.
IssuedQueries(intent) ==
    SelectSeq(_build_query_combinations(intent.any_groups),
              LAMBDA q : q # WILDCARD)

\* C16: each selected backend is asked every query in query order and its
\* kept list is what was kept from those calls, in that order; the list
\* returned is the kept lists joined in selection order and reduced to the
\* first record of each key, so no two of its records have equal keys.
C16_MergeInSelectionOrder ==
    (calc.fn = "search_papers" /\ calc.done)
    => LET out == calc.out[1]
           selected == out.stats.selected_sources
           CallsOf(src) == SelectSeq(out.calls, LAMBDA c : c.src = src)
           merged == Flatten([k \in 1..Len(selected) |->
                                 out.collected_map[selected[k]]])
           first == FirstOccurrences(merged)
       IN  /\ \A src \in Range(selected) :
                 /\ [k \in 1..Len(CallsOf(src)) |-> CallsOf(src)[k].query]
                       = IssuedQueries(calc.intent)
                 /\ out.collected_map[src]
                       = Flatten([k \in 1..Len(CallsOf(src)) |->
                                     CallsOf(src)[k].kept])
           /\ \A i, j \in 1..Len(out.papers) :
                 i # j => _unique_key(out.papers[i]) # _unique_key(out.papers[j])
           /\ Len(out.papers) = Cardinality(first)
           /\ \A k \in 1..Len(out.papers) :
                 out.papers[k]
                    = merged[CHOOSE j \in first :
                                Cardinality({i \in first : i < j}) = k - 1]

\* s2, selected first, kept one spelling of a DOI and openalex the other:
\* the list returned holds the record of s2 and not that of openalex.
C16_Witness ==
    /\ calc.fn = "search_papers"
    /\ calc.done
    /\ calc.out[1].stats.selected_sources = <<"s2", "openalex">>
    /\ Len(calc.out[1].calls) = 4
    /\ calc.out[1].collected_map["s2"] = <<MergePapers[2], MergePapers[3]>>
    /\ MergePapers[1] \in Range(calc.out[1].collected_map["openalex"])
    /\ calc.out[1].papers = <<MergePapers[2], MergePapers[3]>>

\* A GET /search request returns in this step.
SyncReturns == sync.pc # "done" /\ sync'.pc = "done"

\* C11: a task whose parsed intent asks for more than the ceiling leaves
\* parsing as failed, is never searching or later, and search_papers is
\* never called for it; a GET /search whose parsed intent asks for more
\* than the ceiling returns, without having called search_papers, a payload
\* with an error, no results and every counter zero.
C11_OverCeilingRejectedBeforeSearch ==
    /\ [](\A id \in DOMAIN tasks :
            run[id].intent.max_results > MAX_RESULTS_LIMIT
            => /\ tasks[id].status \in {"parsing", "failed"}
               /\ pc[id] # "parse" => tasks[id].status = "failed"
               /\ ~run[id].called)
    /\ []((sync.pc # "idle" /\ sync.intent.max_results > MAX_RESULTS_LIMIT)
            => (sync.pc = "done" /\ ~sync.searched))
    /\ [][(SyncReturns /\ sync'.intent.max_results > MAX_RESULTS_LIMIT)
            => /\ response'.code = 200
               /\ response'.error # None
               /\ response'.results = <<>>
               /\ response'.counts = ZeroCounts]_vars

\* A task and a GET /search request have both been refused for asking more
\* than the ceiling.
C11_Witness ==
    /\ \E id \in DOMAIN tasks :
          /\ run[id].intent.max_results > MAX_RESULTS_LIMIT
          /\ tasks[id].status = "failed"
    /\ sync.pc = "done"
    /\ sync.intent.max_results > MAX_RESULTS_LIMIT
    /\ response = ErrorPayload(sync.query, "max_results exceeds limit")

\* C15: every GET /search request ends with a payload that is returned;
\* when parsing, validation, search_papers or ranking failed the payload
\* has an error, no results and every counter zero, and otherwise it has
\* no error.
C15_SyncSearchNeverRaises ==
    [][SyncReturns
        => /\ response'.code = 200
           /\ sync'.failed_at # "none"
                 => /\ response'.error # None
                    /\ response'.results = <<>>
                    /\ response'.counts = ZeroCounts
           /\ sync'.failed_at = "none" => response'.error = None]_vars

\* Requests have ended in a failure of ranking after a search that found
\* records.
C15_Witness ==
    /\ sync.pc = "done"
    /\ sync.failed_at = "rank"
    /\ sync.out # None
    /\ sync.out[1].papers # <<>>
    /\ response = ErrorPayload(sync.query, "rank error")

\* The backoff before the k-th retry: 0.5 s doubled k-1 times, at most 8 s.
BackoffBefore(k) == Min(BACKOFF_START * 2 ^ (k - 1), BACKOFF_CEILING)

\* The call has returned the sentinel or the body of a 200 response.
HttpReturned ==
    /\ calc.h.result # None
    /\ \/ calc.h.result = Some(SENTINEL)
       \/ /\ calc.h.last.kind = "response"
          /\ calc.h.last.status = 200
          /\ calc.h.result = Some(calc.h.last.body)

\* C22 as stated: a call of _http_get sends at most 6 requests, the wait
\* after its k-th failed attempt is 0.5 s doubled k-1 times and never more
\* than 8 s, and the call returns the sentinel or a parsed body.
C22_WaitsAreTheDoubledBackoff ==
    calc.fn = "_http_get"
    => /\ calc.h.requests <= MAX_ATTEMPTS
       /\ \A k \in 1..Len(calc.h.waits) :
             /\ calc.h.waits[k] = BACKOFF_START * 2 ^ (k - 1)
             /\ calc.h.waits[k] <= BACKOFF_CEILING
       /\ calc.h.result # None => HttpReturned

\* C22, amended: a call of _http_get sends at most 6 requests and always
\* returns, the sentinel or a parsed body; the wait after its k-th failed
\* attempt is the backoff, 0.5 s doubled k-1 times and at most 8 s, plus a
\* jitter of at most 0.3 s.
C22_WaitsAreBackoffPlusJitter ==
    /\ [](calc.fn = "_http_get"
           => /\ calc.h.requests <= MAX_ATTEMPTS
              /\ Len(calc.h.waits) <= calc.h.requests
              /\ \A k \in 1..Len(calc.h.waits) :
                    /\ calc.h.waits[k] >= BackoffBefore(k)
                    /\ calc.h.waits[k] <= BackoffBefore(k) + STATUS_JITTER
              /\ calc.h.result # None => HttpReturned)
    /\ <>(calc.fn = "_http_get" => HttpReturned)

\* Six requests were answered 429 and the call has returned the sentinel,
\* after a first wait longer than the backoff.
C22_Witness ==
    /\ calc.fn = "_http_get"
    /\ calc.h.requests = MAX_ATTEMPTS
    /\ calc.h.last.kind = "response"
    /\ calc.h.last.status = 429
    /\ calc.h.waits[1] = BACKOFF_START + STATUS_JITTER
    /\ calc.h.result = Some(SENTINEL)

\* The failures the client is to retry on.
Transient(o) ==
    \/ o.kind = "response" /\ o.status \in RETRY_STATUSES
    \/ o.kind \in {"ReadTimeout", "ConnectTimeout"}

\* C23: after an attempt that met anything but a transient failure the call
\* is over: with the parsed body after a 200 response, with the sentinel
\* after any other outcome.
C23_RetryOnlyOnTransientFailures ==
    (calc.fn = "_http_get" /\ calc.h.last.kind # "none"
        /\ ~Transient(calc.h.last))
    => /\ calc.h.result # None
       /\ IF calc.h.last.kind = "response" /\ calc.h.last.status = 200
          THEN calc.h.result = Some(calc.h.last.body)
          ELSE calc.h.result = Some(SENTINEL)

\* What a call of an adapter was answered and what it left.
AdapterOut == calc.out[1]

AdapterCalled == calc.fn = "adapter" /\ calc.out # None

AdapterFailure ==
    calc.answer.kind # "ok" \/ calc.answer.bad # 0

\* C21: a call of any of the six adapters that meets a network error, an
\* unparsable body or a record that cannot be mapped raises nothing and
\* returns an empty list with raw_fetched, raw_unique and pages all zero.
C21_AdapterFailuresAreCaughtWithZeroCounts ==
    (AdapterCalled /\ AdapterFailure)
        => /\ ~AdapterOut.raised
           /\ AdapterOut.raw_items = <<>>
           /\ AdapterOut.raw_fetched = 0
           /\ AdapterOut.raw_unique = 0
           /\ AdapterOut.pages = 0

\* C25: every request an adapter sends has passed _rate_limit, and a call
\* whose request fails in the network sends it again.
C25_EveryRequestIsGatedAndRetried ==
    AdapterCalled
        => /\ AdapterOut.gated = AdapterOut.http_requests
           /\ (calc.answer.kind = "network" => AdapterOut.http_requests > 1)

RECURSIVE SumSeq(_)
SumSeq(q) == IF q = <<>> THEN 0 ELSE Head(q) + SumSeq(Tail(q))

\* The page last received ends the paging: it is empty, or with it the
\* offset plus the items reaches the server's total, or with it per_page
\* new records are collected.
StopDue(c) ==
    LET n == Len(c.st.received)
    IN  /\ n >= 1
        /\ \/ c.st.received[n] = 0
           \/ /\ c.st.server_total # None
              /\ c.st.requests[n] + c.st.received[n] >= c.st.server_total[1]
           \/ Len(c.st.collected) >= c.per_page

\* C26: in one call of the s2 adapter a page is requested only when every
\* page requested before has returned, at the offset that is the number
\* of items received on the pages before it; at most max_pages pages are
\* requested; and no page is requested after an empty page, after a page
\* with which offset plus items reaches the server's total, or once
\* per_page new records are collected.
C26_PagesAreSequentialAndBounded ==
    /\ [](calc.fn = "s2_paging"
            => /\ Len(calc.st.requests) <= calc.max_pages
               /\ Len(calc.st.requests)
                     = Len(calc.st.received) + (IF calc.waiting THEN 1 ELSE 0)
               /\ \A k \in 1..Len(calc.st.requests) :
                     calc.st.requests[k]
                        = SumSeq(SubSeq(calc.st.received, 1, k - 1)))
    /\ [][(calc.fn = "s2_paging"
             /\ Len(calc'.st.requests) > Len(calc.st.requests))
            => (~calc.waiting /\ ~StopDue(calc))]_vars

\* A third page was requested at a greater offset than the second, and
\* the call has ended.
C26_Witness ==
    /\ calc.fn = "s2_paging"
    /\ Len(calc.st.requests) >= 3
    /\ calc.st.requests[3] > calc.st.requests[2]
    /\ calc.st.requests[2] > 0
    /\ ~calc.waiting
    /\ calc.st.stop \in {"empty", "total", "enough", "max_pages"}

MergeDone == calc.fn = "search_papers" /\ calc.out # None

MergeCalls == calc.out[1].calls

\* What one backend handed to the aggregator over the calls made to it.
RECURSIVE HandedBy(_, _)
HandedBy(src, calls) ==
    IF calls = <<>>
    THEN <<>>
    ELSE (IF Head(calls).src = src THEN Head(calls).raw_items ELSE <<>>)
             \o HandedBy(src, Tail(calls))

\* C27: over a run of search_papers the records a backend hands to the
\* aggregator have pairwise distinct keys, a call to a backend leaves the
\* seen sets of the other backends as they were and takes no key out of
\* its own, and a record whose key the backend itself has not seen is
\* handed over whether or not another backend has seen the key.
C27_SeenSetsArePerBackend ==
    MergeDone
        => /\ \A src \in DOMAIN calc.out[1].collected_map :
                 LET l == HandedBy(src, MergeCalls)
                 IN  \A a, b \in 1..Len(l) :
                        _unique_key(l[a]) = _unique_key(l[b]) => a = b
           /\ \A n \in 1..Len(MergeCalls) :
                 LET c == MergeCalls[n]
                 IN  /\ c.seen_before[c.src] \subseteq c.seen_after[c.src]
                     /\ \A x \in DOMAIN c.seen_before :
                           x # c.src => c.seen_after[x] = c.seen_before[x]
                     /\ c.src \notin down
                          => \A p \in Range(calc.feed[c.src][c.query]) :
                                _unique_key(p) \notin c.seen_before[c.src]
                                   => \E q \in Range(c.raw_items) :
                                         _unique_key(q) = _unique_key(p)

\* A backend handed over a record whose key another backend had seen, and
\* in a later call dropped a record whose key it had seen itself.
C27_Witness ==
    /\ MergeDone
    /\ \E n \in 1..Len(MergeCalls) :
          LET c == MergeCalls[n]
          IN  \E p \in Range(c.raw_items), x \in DOMAIN c.seen_before :
                 x # c.src /\ _unique_key(p) \in c.seen_before[x]
    /\ \E n \in 1..Len(MergeCalls) :
          LET c == MergeCalls[n]
          IN  /\ c.src \notin down
              /\ \E p \in Range(calc.feed[c.src][c.query]) :
                    _unique_key(p) \in c.seen_before[c.src]

SelectDone == calc.fn = "select" /\ calc.out # None

\* C28: whatever enabled_sources is, the selection search_papers works
\* with holds s2, has one to three entries, none twice and none outside
\* ALLOWED_SOURCES, and every adapter call is to a backend of it.
C28_SelectionIsValidAndBindsTheCalls ==
    SelectDone
        => LET sel == calc.out[1].stats.selected_sources
           IN  /\ "s2" \in Range(sel)
               /\ Len(sel) \in 1..3
               /\ \A a, b \in 1..Len(sel) : sel[a] = sel[b] => a = b
               /\ Range(sel) \subseteq Range(ALLOWED_SOURCES)
               /\ \A n \in 1..Len(calc.out[1].calls) :
                     calc.out[1].calls[n].src \in Range(sel)

\* Four entries without s2, one of them twice in two spellings and one
\* unknown, and the calls went to three backends.
C28_Witness ==
    /\ SelectDone
    /\ calc.intent.enabled_sources
          = Some(<<"openalex", "scholar", " openalex ", "eupmc">>)
    /\ {calc.out[1].calls[n].src : n \in 1..Len(calc.out[1].calls)}
          = {"s2", "openalex", "eupmc"}

ExpandDone == calc.fn = "expand" /\ calc.out # None

\* C29: search_papers calls the adapter of every selected backend for
\* every expanded query but the wildcard, and when no group survives it
\* calls none and returns no record, with the raw, filtered and page
\* totals zero.
C29_WildcardIsNotSearched ==
    ExpandDone
        => LET out == calc.out[1]
               queries == _build_query_combinations(calc.intent.any_groups)
           IN  /\ {<<out.calls[n].query, out.calls[n].src>> :
                      n \in 1..Len(out.calls)}
                     = (Range(queries) \ {WILDCARD})
                          \X Range(out.stats.selected_sources)
               /\ SurvivingGroups(calc.intent.any_groups) = <<>>
                    => /\ queries = <<WILDCARD>>
                       /\ out.calls = <<>>
                       /\ out.papers = <<>>
                       /\ out.stats.total_raw_fetched = 0
                       /\ out.stats.total_raw_unique = 0
                       /\ out.stats.total_after_filter = 0
                       /\ out.stats.total_pages = 0
                       /\ out.stats.final_unique_count = 0

\* Two groups were given, neither survived, and three backends were
\* selected.
C29_Witness ==
    /\ ExpandDone
    /\ Len(calc.intent.any_groups) = 2
    /\ calc.intent.any_groups[1] # <<>>
    /\ SurvivingGroups(calc.intent.any_groups) = <<>>
    /\ Len(calc.out[1].stats.selected_sources) = 3
    /\ calc.out[1].stats.query_combinations = 1

FilterDone == calc.fn = "filter" /\ calc.out # None

\* The six tests of the filter on a record, in their order, and the
\* reason each gives.
Verdicts(p, intent) ==
    <<_author_match(p, intent.author),
      _venue_match(p, intent.venues),
      _pubtypes_match(p, intent.publication_types),
      ~intent.must_have_pdf \/ p.open_access,
      _date_match(p, intent.date_start, intent.date_end),
      _min_influential_match(p, intent.min_influential_citations)>>

Reasons ==
    <<"author_mismatch", "venue_mismatch", "pubtypes_mismatch",
      "need_open_access_pdf", "date_out_of_range",
      "low_influential_citations">>

\* C30: the record a backend answers with is kept exactly when the six
\* tests pass, whichever backend it is, and the reason given for a
\* rejected record is that of the first test that fails, in the order
\* author, venue, publication type, open access, date, influential
\* citations.
C30_KeptIffAllSixPass ==
    FilterDone
        => LET v == Verdicts(calc.p, calc.intent)
               failing == {k \in 1..6 : ~v[k]}
               first == CHOOSE k \in failing : \A x \in failing : k <= x
           IN  /\ (calc.out[1].collected_map[calc.src] = <<calc.p>>)
                     <=> failing = {}
               /\ (calc.out[1].collected_map[calc.src] = <<>>)
                     <=> failing # {}
               /\ calc.reason
                     = IF failing = {} THEN None ELSE Some(Reasons[first])

\* A record of a backend other than s2 failed the tests of venue and of
\* date and was rejected for its venue.
C30_Witness ==
    /\ FilterDone
    /\ calc.src = "eupmc"
    /\ Verdicts(calc.p, calc.intent)
          = <<TRUE, FALSE, TRUE, TRUE, FALSE, TRUE>>
    /\ calc.intent.author # None
    /\ calc.reason = Some("venue_mismatch")
    /\ calc.out[1].papers = <<>>

\* C24: of the callers of _rate_limit at most one is inside the gate at a
\* time, and any two successive passes of the gate, by one caller or by
\* two, are at least _INTERVAL apart.
C24_GateSerialisesAndSpaces ==
    calc.fn = "_rate_limit"
        => /\ \A a, b \in 1..MaxCallers :
                 (calc.pc[a] = "sleeping" /\ calc.pc[b] = "sleeping")
                    => a = b
           /\ \A c \in 1..MaxCallers :
                 calc.pc[c] = "sleeping" <=> calc.holder = c
           /\ calc.gap # None => calc.gap[1] >= _INTERVAL

\* Every caller has passed, one is waiting for the lock to pass again
\* while another sleeps in the gate, and the last two passes were exactly
\* _INTERVAL apart.
C24_Witness ==
    /\ calc.fn = "_rate_limit"
    /\ \A c \in 1..MaxCallers : calc.passes[c] >= 1
    /\ calc.holder # 0
    /\ calc.waiters # <<>>
    /\ calc.gap = Some(_INTERVAL)

\* a is the day b or an earlier one, for <<year, month, day>>.
NotAfter(a, b) ==
    \/ a[1] < b[1]
    \/ a[1] = b[1] /\ a[2] < b[2]
    \/ a[1] = b[1] /\ a[2] = b[2] /\ a[3] <= b[3]

\* The day a record is dated: its publication date, else 1 July of its
\* year, else none.
DatedAt(p) ==
    IF p.publication_date # None /\ ValidDate(p.publication_date[1])
    THEN p.publication_date
    ELSE IF p.year # None /\ p.year[1] >= 1
    THEN Some(<<p.year[1], 7, 1>>)
    ELSE None

\* The first and the last day a bound stands for: a year stands for its
\* 1 January and 31 December, a year and month for the first and the last
\* day of the month, a day for itself; a bound that names no date stands
\* for none.
BoundDays(b) ==
    CASE Len(b) = 1 -> Some(<<<<b[1], 1, 1>>, <<b[1], 12, 31>>>>)
      [] Len(b) = 2 /\ b[2] \in 1..12 ->
            Some(<<<<b[1], b[2], 1>>,
                   <<b[1], b[2],
                     IF b[2] = 2
                     THEN (IF IsLeap(b[1]) THEN 29 ELSE 28)
                     ELSE IF b[2] \in {4, 6, 9, 11} THEN 30 ELSE 31>>>>)
      [] Len(b) = 3 /\ ValidDate(b) -> Some(<<b, b>>)
      [] OTHER -> None

\* C31: without a bound every record passes the date test; with a start
\* or an end bound a record that has neither a publication date nor a
\* year fails, and a record dated by its publication date, else by 1 July
\* of its year, passes exactly when it is not before the first day of the
\* start bound and not after the last day of the end bound.
C31_DateRangeIsInclusive ==
    (calc.fn = "_date_match" /\ calc.out # None)
        => LET d == DatedAt(calc.p)
               lo == IF calc.ds = None THEN None ELSE BoundDays(calc.ds[1])
               hi == IF calc.de = None THEN None ELSE BoundDays(calc.de[1])
           IN  calc.out[1]
                 = IF calc.ds = None /\ calc.de = None
                   THEN TRUE
                   ELSE /\ d # None
                        /\ lo # None => NotAfter(lo[1][1], d[1])
                        /\ hi # None => NotAfter(d[1], hi[1][2])

\* A record without a publication date, dated 1 July 2024 by its year,
\* passed between a start of February 2024 and the end 1 July 2024.
C31_Witness ==
    /\ calc.fn = "_date_match"
    /\ calc.out = Some(TRUE)
    /\ calc.p.publication_date = None
    /\ calc.p.year = Some(2024)
    /\ calc.ds = Some(<<2024, 2>>)
    /\ calc.de = Some(<<2024, 7, 1>>)

\* Some item of the page q has a key that is in seen or is the key of an
\* item before it.
RepeatsSeenKey(q, seen) ==
    \E i \in 1..Len(q) :
        \/ _unique_key(q[i]) \in seen
        \/ \E j \in 1..(i - 1) : _unique_key(q[j]) = _unique_key(q[i])

\* C32: a call of any adapter that the backend answers with a page of
\* records reports as raw_fetched the number of records on the page and as
\* raw_unique the number of records it hands over, which are the records
\* whose keys were not seen; raw_unique is at most raw_fetched, and less
\* when a record of the page repeats a seen key.
C32_RawCountsAreBeforeAndAfterDedup ==
    (AdapterCalled /\ ~AdapterFailure)
        => /\ AdapterOut.raw_fetched = Len(calc.answer.items)
           /\ AdapterOut.raw_unique = Len(AdapterOut.raw_items)
           /\ AdapterOut.raw_unique <= AdapterOut.raw_fetched
           /\ RepeatsSeenKey(calc.answer.items, calc.seen)
                 => AdapterOut.raw_unique < AdapterOut.raw_fetched

\* C33: while a task is on its way to completed, no step lowers the overall
\* percent a poll reads for it, in whatever order the backends are reported
\* through update_source_progress.
C33_PercentNeverDecreases ==
    [][\A id \in DOMAIN tasks \cap DOMAIN tasks' :
          tasks'[id].status # "failed"
             => tasks'[id].progress.overall_percent
                   >= tasks[id].progress.overall_percent]_vars

\* C34: in every state the overall percent and the stage description
\* stored for a task are those _calculate_overall_percent and
\* _generate_stage_description give for its stage and its per-backend map,
\* also after complete_task and fail_task.
C34_StoredProgressIsTheComputedOne ==
    \A id \in DOMAIN tasks :
        LET progress == tasks[id].progress
        IN  /\ progress.overall_percent
                  = _calculate_overall_percent(progress.stage, progress.sources)
            /\ progress.stage_description
                  = _generate_stage_description(progress.stage,
                                                progress.sources)

\* The keys of the records the calls of src among the first k calls
\* returned to the aggregator.
DeliveredKeys(calls, src, k) ==
    UNION {{_unique_key(calls[j].raw_items[i]) :
               i \in 1..Len(calls[j].raw_items)} :
           j \in {c \in 1..k : calls[c].src = src}}

\* C35: after every adapter call of a search_papers run, each key in a
\* backend's seen set is the key of a record some call of that backend
\* has returned to the aggregator, also when a call failed while mapping
\* a response.
C35_SeenKeysWereDelivered ==
    MergeDone
        => \A k \in 1..Len(MergeCalls) :
              \A src \in DOMAIN MergeCalls[k].seen_after :
                 MergeCalls[k].seen_after[src]
                    \subseteq DeliveredKeys(MergeCalls, src, k)

\* The per-backend counters search_papers returned, in the order of the
\* selected backends.
PerBackend == calc.out[1].stats.individual_stats

\* C36: the counters search_papers returns satisfy final_unique_count <=
\* total_after_filter <= total_raw_unique <= total_raw_fetched; for each
\* selected backend after_filter <= raw_unique <= raw_fetched; each total
\* is the sum of the values of the selected backends; and
\* final_unique_count is the length of the list returned.
C36_CountersFormAChain ==
    MergeDone
        => LET stats == calc.out[1].stats
               n == Len(stats.selected_sources)
           IN  /\ stats.final_unique_count <= stats.total_after_filter
               /\ stats.total_after_filter <= stats.total_raw_unique
               /\ stats.total_raw_unique <= stats.total_raw_fetched
               /\ Len(PerBackend) = n
               /\ \A i \in 1..n :
                     /\ PerBackend[i].source = stats.selected_sources[i]
                     /\ PerBackend[i].after_filter <= PerBackend[i].raw_unique
                     /\ PerBackend[i].raw_unique <= PerBackend[i].raw_fetched
               /\ stats.total_raw_fetched
                     = SumSeq([i \in 1..n |-> PerBackend[i].raw_fetched])
               /\ stats.total_raw_unique
                     = SumSeq([i \in 1..n |-> PerBackend[i].raw_unique])
               /\ stats.total_after_filter
                     = SumSeq([i \in 1..n |-> PerBackend[i].after_filter])
               /\ stats.final_unique_count = Len(calc.out[1].papers)

\* A run over three backends in which every link of the chain is strict.
C36_Witness ==
    /\ MergeDone
    /\ Len(calc.out[1].stats.selected_sources) = 3
    /\ calc.out[1].stats.final_unique_count >= 1
    /\ calc.out[1].stats.final_unique_count
          < calc.out[1].stats.total_after_filter
    /\ calc.out[1].stats.total_after_filter
          < calc.out[1].stats.total_raw_unique
    /\ calc.out[1].stats.total_raw_unique
          < calc.out[1].stats.total_raw_fetched

\* C37: for an intent whose max_results is not above the ceiling, the list
\* returned is the first min(max_results, number of ranked records)
\* records of the ranked list in their ranked order, it is no longer than
\* max_results, and after_rank_cut is its length.
C37_ResultsAreTheTopOfTheRanking ==
    (calc.fn = "rank_cut" /\ calc.out # None)
        => LET out == calc.out[1]
               n == calc.intent.max_results
           IN  /\ Len(out.results) <= n
               /\ Len(out.results) = Min(n, Len(out.papers_sorted))
               /\ out.results = SubSeq(out.papers_sorted, 1, Len(out.results))
               /\ out.after_rank_cut = Len(out.results)

\* The ids whose record a step adds, removes or changes.
Touched ==
    {id \in DOMAIN tasks \cup DOMAIN tasks' :
        \/ id \notin DOMAIN tasks
        \/ id \notin DOMAIN tasks'
        \/ tasks'[id] # tasks[id]}

\* C38: every step of the store adds or changes the record of at most one
\* task and removes none; a step of the execution of a task touches that
\* task alone; and a record that is added is under an id not in the store
\* before, with status created, percent 0, no sources, no results, no
\* errors and no expiry.
C38_TasksAreIsolated ==
    [][/\ Cardinality(Touched) <= 1
       /\ DOMAIN tasks \subseteq DOMAIN tasks'
       /\ \A id \in TaskIds : pc'[id] # pc[id] => Touched \subseteq {id}
       /\ \A id \in DOMAIN tasks' \ DOMAIN tasks :
             /\ tasks'[id].task_id = id
             /\ tasks'[id].status = "created"
             /\ tasks'[id].progress.stage = "created"
             /\ tasks'[id].progress.overall_percent = 0
             /\ tasks'[id].progress.sources = <<>>
             /\ tasks'[id].results = None
             /\ tasks'[id].errors = <<>>
             /\ tasks'[id].completed_at = None
             /\ tasks'[id].expires_at = None]_vars

\* Two tasks ran side by side: one is completed while the other is still
\* searching with a backend reported.
C38_Witness ==
    /\ DOMAIN tasks = TaskIds
    /\ tasks[1].status = "completed"
    /\ tasks[2].status = "searching"
    /\ tasks[2].progress.sources # <<>>

\* C39: a call of update_task_status, update_source_progress,
\* complete_task or fail_task with a task id that is not in the store,
\* evicted or never created, leaves the store as it was: no record is
\* changed and none is created.
C39_MissingIdIsANoOp ==
    [][(/\ calc.fn = "store"
        /\ calc'.ops > calc.ops
        /\ calc'.last.op # "create_task"
        /\ calc'.last.id \notin DOMAIN tasks)
          => tasks' = tasks]_vars

\* complete_task was called for a task that had been created and, after
\* its expiry, evicted by the cleanup job.
C39_Witness ==
    /\ calc.fn = "store"
    /\ calc.last.op = "complete_task"
    /\ calc.last.id \in used
    /\ calc.last.id \notin DOMAIN tasks
    /\ now > TTL_MINUTES

====
